---- MODULE Spec2Model ----
(***************************************************************************)
(* smartfolder: the per-folder job queue of WorkflowOrchestrator, the      *)
(* self-change suppressor (ignoredFiles / ignoredFileTimeouts), the folder *)
(* watchers that feed it and the sandboxed file tools a job may invoke.    *)
(*                                                                         *)
(* Paths are sequences of segments; an absolute path starts with "/".      *)
(* Time is the value of Date.now() in milliseconds, advanced in steps of   *)
(* TickMs.                                                                 *)
(***************************************************************************)
EXTENDS Integers, Sequences, FiniteSets, TLC

\* ---------------------------------------------------------------- bounds
MaxEvents == 2          \* add events (user drops and tool-made files) per run
MaxToolCalls == 1       \* ai.maxToolCalls of the configuration under test
TicksPerWindow == 2     \* clock resolution: ticks per ignore window
DropTicks == 2          \* clock instants at which users drop files

\* ------------------------------------------------------ program constants
IGNORE_DURATION_MS == 10000

TickMs == IGNORE_DURATION_MS \div TicksPerWindow
StartTime == TickMs
\* a cleanup timer fires at its deadline or up to TimerLateMs after it
TimerLateMs == TickMs
\* long enough for a file dropped in the slow folder to be processed and for
\* the add event of the file its job creates to arrive
MaxTime == StartTime + (2 * (IGNORE_DURATION_MS + TickMs))
\* users drop their files during the first DropTicks instants of the run
LastDropTime == StartTime + ((DropTicks - 1) * TickMs)

\* ------------------------------------------------------------ configuration
FolderA == <<"/", "w", "a">>
FolderB == <<"/", "w", "b">>
Folders == {FolderA, FolderB}

\* folder.debounceMs: any non-negative integer is a valid configuration
\* (expectNonNegativeInteger); A is quick, B waits longer than the ignore window.
DebounceMs(folder) ==
    IF folder = FolderA THEN TickMs ELSE IGNORE_DURATION_MS + TickMs

ToolIds == {"read_file", "write_file", "rename_file", "move_file", "grep",
            "sed", "head", "tail", "create_folder"}

\* folder.tools of the two folders: A has every tool, B the three of the
\* tool tests' folder configuration
FolderTools(folder) ==
    IF folder = FolderA THEN ToolIds ELSE {"read_file", "write_file", "rename_file"}

\* Directories that exist outside the model's control.
StaticDirs == {<<"/">>, <<"/", "w">>, <<"/", "etc">>, FolderA, FolderB}

\* Tool path arguments the model may produce: names in the folder with the
\* same, another, a binary and no extension, a nested name, the folder itself,
\* two escapes and the empty string (<<>>).
Targets == { <<"f.txt">>, <<"g.txt">>, <<".">>,
             <<"..", "b", "g.txt">>, <<"/", "etc", "p.txt">>,
             <<"f.md">>, <<"a.pdf">>, <<"d">>, <<"d", "f.txt">>, <<>> }

\* The targets that name a file of the folder itself.
SessionTargets == { <<"f.txt">>, <<"g.txt">> }

\* Names a user drops into a watched folder.
DropNames == {"f.txt", "g.txt"}

Contents == {"c1", "c2"}
DIR == "DIR"

\* ------------------------------------------------------------ path helpers
IsAbsolute(p) == p # <<>> /\ Head(p) = "/"

RECURSIVE NormalizeFrom(_, _)
NormalizeFrom(acc, rest) ==
    IF rest = <<>> THEN acc
    ELSE LET s == Head(rest) IN
         IF s = "." THEN NormalizeFrom(acc, Tail(rest))
         ELSE IF s = ".."
              THEN NormalizeFrom(IF Len(acc) > 1
                                 THEN SubSeq(acc, 1, Len(acc) - 1)
                                 ELSE acc,
                                 Tail(rest))
              ELSE NormalizeFrom(Append(acc, s), Tail(rest))

\* path.resolve(base, target) for an absolute, normalised base
PathResolve(base, target) ==
    IF IsAbsolute(target)
    THEN NormalizeFrom(<<"/">>, Tail(target))
    ELSE NormalizeFrom(base, target)

RECURSIVE CommonLen(_, _)
CommonLen(a, b) ==
    IF a = <<>> \/ b = <<>> \/ Head(a) # Head(b)
    THEN 0
    ELSE 1 + CommonLen(Tail(a), Tail(b))

\* path.relative(from, to) for absolute, normalised arguments
PathRelative(from, to) ==
    LET k == CommonLen(from, to) IN
    [i \in 1..(Len(from) - k) |-> ".."] \o SubSeq(to, k + 1, Len(to))

\* relative.startsWith(".."): the first segment is ".." (no name of the model
\* begins with two dots otherwise)
StartsWithDotDot(rel) == rel # <<>> /\ Head(rel) = ".."

PathDirname(p) == IF Len(p) > 1 THEN SubSeq(p, 1, Len(p) - 1) ELSE p

PathBasename(p) == IF p = <<>> THEN "" ELSE p[Len(p)]

\* path.extname of the last segment, over the names of the model
PathExtname(p) ==
    LET b == PathBasename(p) IN
    IF b \in {"f.txt", "g.txt", "h.txt", "p.txt"} THEN ".txt"
    ELSE IF b = "f.md" THEN ".md"
    ELSE IF b = "a.pdf" THEN ".pdf"
    ELSE ""

\* p is root or lies below it
Within(root, p) == Len(p) >= Len(root) /\ SubSeq(p, 1, Len(root)) = root

\* ------------------------------------------------------------------- state
VARIABLES
    now,                  \* Date.now()
    aiConfigured,         \* AiClient.isConfigured(): an API key was found
    dryRunFlag,           \* --dry-run of the command line
    fsys,                 \* the filesystem: absolute path -> content or DIR
    events,               \* add events chokidar has pending (awaitWriteFinish)
    nextEv,               \* id of the next add event
    jobs,                 \* the jobs ever enqueued, in enqueue order
    queues,               \* WorkflowOrchestrator.queues: folder path -> tail job
    ignoredFiles,         \* WorkflowOrchestrator.ignoredFiles: path -> timestamp
    ignoredFileTimeouts,  \* WorkflowOrchestrator.ignoredFileTimeouts: path -> timer
    timers,               \* the live setTimeout timers of the runtime
    history,              \* history.jsonl per folder: sequence of records
    delivered,            \* add events handed to enqueueFile: id -> what was seen
    lastCall,             \* the paths the tool invocation of this step acted on
    lastMut,              \* path -> time a tool last changed it
    mdFile,               \* the smartfolder.md under the root: absent or its content
    discoveredConfigs,    \* SmartFolderMdDiscovery.discoveredConfigs, at that path
    fileWatchers,         \* SmartFolderMdDiscovery.fileWatchers, at that path
    discovery,            \* discoverAll runs and watcher handlers in flight
    mdEvents,             \* events the per-file chokidar watcher has pending
    watchers,             \* DynamicWatcherManager.watchers, at the file's folder
    tally,                \* callbacks fired since the file last appeared
    proc,                 \* the process: signal handlers, watch session, exit
    metadataFile,         \* metadata.json of a folder's state directory
    metaLog,              \* what the ensureFolderMetadata calls wrote so far
    manager,              \* a DynamicWatcherManager and its calls in flight
    sample,               \* a file and the prompt body built for it
    startup               \* startRunSession: state directories, watchers

\* the state of a session of statically configured folders
coreVars == <<now, aiConfigured, dryRunFlag, fsys, events, nextEv,
              jobs, queues, ignoredFiles, ignoredFileTimeouts, timers, history,
              delivered, lastCall, lastMut>>

discVars == <<mdFile, discoveredConfigs, fileWatchers, discovery, mdEvents,
              watchers, tally>>

metaVars == <<metadataFile, metaLog>>

auxVars == <<manager, sample, startup>>

sideVars == <<metaVars, auxVars>>

restVars == <<discVars, proc, sideVars>>

vars == <<coreVars, restVars>>

Exists(fs, p) == p \in StaticDirs \/ p \in DOMAIN fs

IsDir(fs, p) == p \in StaticDirs \/ (p \in DOMAIN fs /\ fs[p] = DIR)

IsFile(fs, p) == p \in DOMAIN fs /\ fs[p] # DIR

\* m with key k removed
MapDelete(m, k) == [q \in (DOMAIN m) \ {k} |-> m[q]]

\* m with key k set to v
MapSet(m, k, v) == [q \in (DOMAIN m) \cup {k} |-> IF q = k THEN v ELSE m[q]]

EmptyMap == [q \in {} |-> 0]

\* no tool invocation observed
NoCall == [tool |-> "none", args |-> [path |-> <<>>], folder |-> <<>>,
           dryRun |-> FALSE, before |-> EmptyMap, ok |-> FALSE,
           skipped |-> FALSE, threw |-> FALSE, touched |-> {}, marks |-> <<>>,
           mutated |-> {}]

\* no smartfolder.md under the root and nothing discovered
DiscInit ==
    /\ mdFile = [name |-> "absent", size |-> 0, length |-> 0, nul |-> FALSE]
    /\ discoveredConfigs = "none"
    /\ fileWatchers = "none"
    /\ discovery = {}
    /\ mdEvents = {}
    /\ watchers = "none"
    /\ tally = [added |-> 0, removed |-> 0, polls |-> 0, edits |-> 0,
                polledAt |-> 0, everValid |-> FALSE, rejected |-> FALSE,
                deleted |-> FALSE, refused |-> FALSE,
                isRunning |-> TRUE, stopped |-> FALSE, late |-> FALSE,
                orphan |-> FALSE]

\* a DynamicWatcherManager on one folder path: the watcher the map holds for
\* the path (0: none), the watchers that are open, the watchers created so
\* far, the calls in flight, the calls made, and whether an addWatcher that
\* was called after the last removeWatcher call has resolved
NoManager == [entry |-> 0, open |-> {}, created |-> 0, ops |-> {},
              calls |-> 0, added |-> FALSE]

NoSample == [pc |-> "none"]

NoStartup == [pc |-> "none", env |-> [SMARTFOLDER_HOME |-> <<>>,
                                      homedir |-> <<"/">>],
              dirs |-> {}, warned |-> {}, watching |-> {},
              appended |-> 0, failed |-> 0, missing |-> {},
              observed |-> FALSE]

\* holdProcessOpen has installed its signal handlers and the watch session
\* is open
ProcInit ==
    proc = [state |-> "running", handlers |-> TRUE, session |-> "open",
            inFlight |-> {}]

\* no metadata.json yet and no call made
NoMetadata == [kind |-> "absent", firstWatchedAt |-> 0, lastRunAt |-> 0,
               prompt |-> ""]

MetaInit ==
    /\ metadataFile = NoMetadata
    /\ metaLog = [calls |-> 0, first |-> 0, created |-> 0, at |-> 0,
                  resolved |-> FALSE]

\* no manager call was made, no prompt body was built, the session has not
\* started
AuxInit ==
    /\ manager = NoManager
    /\ sample = NoSample
    /\ startup = NoStartup

RestInit == DiscInit /\ ProcInit /\ MetaInit /\ AuxInit

Init ==
    /\ RestInit
    /\ now = StartTime
    /\ aiConfigured \in BOOLEAN
    /\ dryRunFlag \in BOOLEAN
    /\ fsys = EmptyMap
    /\ events = {}
    /\ nextEv = 1
    /\ jobs = <<>>
    /\ queues = EmptyMap
    /\ ignoredFiles = EmptyMap
    /\ ignoredFileTimeouts = EmptyMap
    /\ timers = {}
    /\ history = [f \in Folders |-> <<>>]
    /\ delivered = EmptyMap
    /\ lastCall = NoCall
    /\ lastMut = EmptyMap

\* ------------------------------------------------- self-change suppressor
\* isFileIgnored without the age test: the entry counts until its timer fires
IsFileIgnored_NoAge(files, t, filePath) ==
    LET normalizedPath == PathResolve(<<"/">>, filePath) IN
    /\ normalizedPath \in DOMAIN files
    /\ files[normalizedPath] # 0

\* isFileIgnored (orchestrator.ts 426-439): the value it returns at time t
IsFileIgnored(files, t, filePath) ==
    LET normalizedPath == PathResolve(<<"/">>, filePath) IN
    /\ normalizedPath \in DOMAIN files
    /\ files[normalizedPath] # 0
    /\ ~(t - files[normalizedPath] > IGNORE_DURATION_MS)

\* isFileIgnored: the map it leaves behind (an expired entry is deleted)
IgnoredAfterProbe(files, t, filePath) ==
    LET normalizedPath == PathResolve(<<"/">>, filePath) IN
    IF /\ normalizedPath \in DOMAIN files
       /\ files[normalizedPath] # 0
       /\ t - files[normalizedPath] > IGNORE_DURATION_MS
    THEN MapDelete(files, normalizedPath)
    ELSE files

\* scheduleCleanup (444-451): a new timer, stored under the path
ScheduleCleanup(st, t, filePath) ==
    LET timeout == [path |-> filePath, due |-> t + IGNORE_DURATION_MS] IN
    [files    |-> st.files,
     timeouts |-> MapSet(st.timeouts, filePath, timeout),
     timers   |-> st.timers \cup {timeout}]

\* ignoreFile without the clearTimeout of the previous timer
IgnoreFile_NoClear(st, t, filePath) ==
    LET normalizedPath == PathResolve(<<"/">>, filePath) IN
    ScheduleCleanup([files    |-> MapSet(st.files, normalizedPath, t),
                     timeouts |-> st.timeouts,
                     timers   |-> st.timers],
                    t, normalizedPath)

\* ignoreFile (410-421) on st = [files, timeouts, timers]
IgnoreFile(st, t, filePath) ==
    LET normalizedPath == PathResolve(<<"/">>, filePath)
        cleared == IF normalizedPath \in DOMAIN st.timeouts
                   THEN st.timers \ {st.timeouts[normalizedPath]}
                   ELSE st.timers
    IN  ScheduleCleanup([files    |-> MapSet(st.files, normalizedPath, t),
                         timeouts |-> st.timeouts,
                         timers   |-> cleared],
                        t, normalizedPath)

\* the callback of a cleanup timer (445-448)
TimerFire(tm) ==
    /\ tm \in timers
    /\ now >= tm.due
    /\ timers' = timers \ {tm}
    /\ ignoredFiles' = MapDelete(ignoredFiles, tm.path)
    /\ ignoredFileTimeouts' = MapDelete(ignoredFileTimeouts, tm.path)
    /\ UNCHANGED <<now, aiConfigured, dryRunFlag, fsys, events,
                   nextEv, jobs, queues, history, delivered, lastMut>>
    /\ lastCall' = NoCall
    /\ UNCHANGED restVars

\* ------------------------------------------------------------ job queue
\* one chain shared by every folder
QueueKey_Global(folder) == <<"*">>

\* the key of the folder's promise chain (orchestrator.ts 257)
QueueKey(folder) == folder

\* a job that does not wait for the tail of the chain
CanStart_NoWait(j) == TRUE

\* prev.then(...) without the catch: a rejected predecessor skips the job
CanStart_ThenOnly(j) ==
    IF jobs[j].prev = 0
    THEN TRUE
    ELSE /\ jobs[jobs[j].prev].pc = "settled"
         /\ jobs[jobs[j].prev].outcome = "fulfilled"

\* prev.catch(() => undefined).then(() => runJob(...)) (258-261): the job
\* starts once the previous tail of the chain has settled, either way
CanStart(j) ==
    IF jobs[j].prev = 0
    THEN TRUE
    ELSE jobs[jobs[j].prev].pc = "settled"

NewJob(ev, folder, filePath, dryRun, prev) ==
    [ev |-> ev, folder |-> folder, file |-> filePath, dryRun |-> dryRun,
     prev |-> prev, pc |-> "pending", outcome |-> "none", steps |-> 0,
     record |-> "none", append |-> "none", statOk |-> TRUE,
     calls |-> <<>>, toolResults |-> <<>>]

\* enqueueFile without the isFileIgnored check
EnqueueFile_NoCheck(folder, filePath, dryRun, ev) ==
    LET queueKey == QueueKey(folder)
        prev == IF queueKey \in DOMAIN queues THEN queues[queueKey] ELSE 0
    IN  /\ jobs' = Append(jobs, NewJob(ev, folder, filePath, dryRun, prev))
        /\ queues' = MapSet(queues, queueKey, Len(jobs) + 1)
        /\ ignoredFiles' = ignoredFiles

\* enqueueFile chaining every job on a fresh Promise.resolve()
EnqueueFile_NoChain(folder, filePath, dryRun, ev) ==
    IF IsFileIgnored(ignoredFiles, now, filePath)
    THEN UNCHANGED <<jobs, queues, ignoredFiles>>
    ELSE /\ jobs' = Append(jobs, NewJob(ev, folder, filePath, dryRun, 0))
         /\ queues' = MapSet(queues, QueueKey(folder), Len(jobs) + 1)
         /\ ignoredFiles' = IgnoredAfterProbe(ignoredFiles, now, filePath)

\* enqueueFile (246-269)
EnqueueFile(folder, filePath, dryRun, ev) ==
    IF IsFileIgnored(ignoredFiles, now, filePath)
    THEN UNCHANGED <<jobs, queues, ignoredFiles>>
    ELSE LET queueKey == QueueKey(folder)
             prev == IF queueKey \in DOMAIN queues THEN queues[queueKey] ELSE 0
         IN  /\ jobs' = Append(jobs, NewJob(ev, folder, filePath, dryRun, prev))
             /\ queues' = MapSet(queues, queueKey, Len(jobs) + 1)
             /\ ignoredFiles' = IgnoredAfterProbe(ignoredFiles, now, filePath)

\* watcher.on('add') -> onFileAdded -> orchestrator.enqueueFile (watcher.ts
\* 64-78, cli 318): chokidar hands over the event once the file has been
\* stable for debounceMs
Deliver(e) ==
    /\ e \in events
    /\ now >= e.readyAt
    /\ events' = events \ {e}
    /\ delivered' = MapSet(delivered, e.id,
                           [cause |-> e.cause,
                            ignored |-> /\ e.path \in DOMAIN ignoredFiles
                                        /\ now - ignoredFiles[e.path]
                                              <= IGNORE_DURATION_MS])
    /\ EnqueueFile(e.folder, e.path, dryRunFlag, e.id)
    /\ UNCHANGED <<now, aiConfigured, dryRunFlag, fsys, nextEv,
                   ignoredFileTimeouts, timers, history, lastMut>>
    /\ lastCall' = NoCall
    /\ UNCHANGED restVars

\* the add events chokidar raises for files that appeared directly in a
\* watched folder (depth: 0, 'add' only)
AddEvents(created, cause, firstId) ==
    LET watched == {p \in created : PathDirname(p) \in Folders}
        ordered == CHOOSE s \in [1..Cardinality(watched) -> watched] :
                       \A a, b \in 1..Cardinality(watched) : a # b => s[a] # s[b]
    IN  {[id |-> firstId + i - 1, folder |-> PathDirname(ordered[i]),
          path |-> ordered[i], cause |-> cause,
          readyAt |-> now + DebounceMs(PathDirname(ordered[i]))] :
            i \in 1..Cardinality(watched)}

\* a user drops a new file into a watched folder
UserAdd(folder, name, content) ==
    LET p == Append(folder, name) IN
    /\ nextEv <= MaxEvents
    /\ now <= LastDropTime
    /\ ~Exists(fsys, p)
    /\ fsys' = MapSet(fsys, p, content)
    /\ events' = events \cup AddEvents({p}, "user", nextEv)
    /\ nextEv' = nextEv + 1
    /\ UNCHANGED <<now, aiConfigured, dryRunFlag, jobs, queues,
                   ignoredFiles, ignoredFileTimeouts, timers, history,
                   delivered, lastMut>>
    /\ lastCall' = NoCall
    /\ UNCHANGED restVars

\* getToolDefinitions (fileTools 100-105)
GetToolDefinitions(toolIds) == toolIds \cap ToolIds

\* a step limit that never stops the loop
StopWhen_Never(steps) == FALSE

\* stopWhen: stepCountIs(request.maxToolCalls) (aiClient 166): the loop ends
\* once that many model steps have been made
StopWhen(steps) == steps >= MaxToolCalls

\* every tool call of the current step has returned to the SDK
CallsDone(j) == \A i \in 1..Len(jobs[j].calls) : jobs[j].calls[i].phase = "done"

\* the .then callback of the chain fires and runJob begins (271-297):
\* buildFileEvent never throws, a file it cannot stat is described without
\* size and dates (statOk); the job is skipped without a history record
\* when the client has no key or the folder has no tools, otherwise it
\* enters runWorkflow
StartJob(j) ==
    /\ j \in 1..Len(jobs)
    /\ jobs[j].pc = "pending"
    /\ CanStart(j)
    /\ IF ~aiConfigured \/ GetToolDefinitions(FolderTools(jobs[j].folder)) = {}
       THEN jobs' = [jobs EXCEPT ![j].pc = "settled", ![j].outcome = "fulfilled",
                                ![j].statOk = IsFile(fsys, jobs[j].file)]
       ELSE jobs' = [jobs EXCEPT ![j].pc = "workflow",
                                ![j].statOk = IsFile(fsys, jobs[j].file)]
    /\ UNCHANGED <<now, aiConfigured, dryRunFlag, fsys, events,
                   nextEv, queues, ignoredFiles, ignoredFileTimeouts, timers,
                   history, delivered, lastMut>>
    /\ lastCall' = NoCall
    /\ UNCHANGED restVars

\* appendHistory writing the record twice
AppendHistory_Twice(hist, folder, record, ok) ==
    [hist EXCEPT ![folder] = @ \o <<record, record>>]

\* appendHistory (392-404): fs.appendFile succeeds (ok) or fails and is only
\* logged
AppendHistory(hist, folder, record, ok) ==
    IF ok THEN [hist EXCEPT ![folder] = Append(@, record)] ELSE hist

\* appendHistory letting a failed fs.appendFile reject runJob
AppendOutcome_Rethrow(ok) == IF ok THEN "fulfilled" ELSE "rejected"

\* how runJob settles after `await this.appendHistory(...)`: the try/catch of
\* appendHistory (396-403) turns a failed append into a warning, so the await
\* never rejects
AppendOutcome(ok) == "fulfilled"

\* runWorkflow resolves (runJob 302-326): generateText ends with a step
\* without tool calls, or after the step that met the stop condition; the
\* result record is appended and runJob resolves
WorkflowReturns(j, ok) ==
    /\ j \in 1..Len(jobs)
    /\ jobs[j].pc = "workflow"
    /\ CallsDone(j)
    /\ history' = AppendHistory(history, jobs[j].folder,
                                [ev |-> jobs[j].ev, kind |-> "result"], ok)
    /\ jobs' = [jobs EXCEPT ![j].pc = "settled",
                             ![j].outcome = AppendOutcome(ok),
                             ![j].steps = IF StopWhen(@) THEN @ ELSE @ + 1,
                             ![j].record = "result",
                             ![j].calls = <<>>, ![j].toolResults = <<>>,
                             ![j].append = IF ok THEN "ok" ELSE "failed"]
    /\ UNCHANGED <<now, aiConfigured, dryRunFlag, fsys, events,
                   nextEv, queues, ignoredFiles, ignoredFileTimeouts, timers,
                   delivered, lastMut>>
    /\ lastCall' = NoCall
    /\ UNCHANGED restVars

\* the catch block of runJob settling the job without writing the record
WorkflowThrows_NoRecord(j, thrown, ok) ==
    /\ j \in 1..Len(jobs)
    /\ jobs[j].pc = "workflow"
    /\ CallsDone(j)
    /\ thrown = "Error" \/ ok
    /\ history' = history
    /\ jobs' = [jobs EXCEPT ![j].pc = "settled",
                             ![j].outcome = IF thrown = "Error" THEN "fulfilled"
                                            ELSE "rejected",
                             ![j].record = IF thrown = "Error" THEN "error"
                                           ELSE "none",
                             ![j].append = IF thrown # "Error" THEN "none"
                                           ELSE IF ok THEN "ok" ELSE "failed",
                             ![j].calls = <<>>, ![j].toolResults = <<>>]
    /\ UNCHANGED <<now, aiConfigured, dryRunFlag, fsys, events,
                   nextEv, queues, ignoredFiles, ignoredFileTimeouts, timers,
                   delivered, lastMut>>
    /\ lastCall' = NoCall
    /\ UNCHANGED restVars

\* runWorkflow rejects (runJob 327-337).  aiClient rethrows whatever the SDK
\* threw (aiClient 217); the catch block reads (error as Error).message and
\* appends an error record; the read itself throws when the thrown value is
\* null or undefined, and then runJob rejects without a record and only
\* enqueueFile's catch sees it.
WorkflowThrows(j, thrown, ok) ==
    /\ j \in 1..Len(jobs)
    /\ jobs[j].pc = "workflow"
    /\ CallsDone(j)
    /\ IF thrown = "Error"
       THEN /\ history' = AppendHistory(history, jobs[j].folder,
                                        [ev |-> jobs[j].ev, kind |-> "error"], ok)
            /\ jobs' = [jobs EXCEPT ![j].pc = "settled",
                                     ![j].outcome = AppendOutcome(ok),
                                     ![j].record = "error",
                                     ![j].calls = <<>>, ![j].toolResults = <<>>,
                                     ![j].append = IF ok THEN "ok" ELSE "failed"]
       ELSE /\ ok
            /\ history' = history
            /\ jobs' = [jobs EXCEPT ![j].pc = "settled", ![j].outcome = "rejected",
                                     ![j].calls = <<>>, ![j].toolResults = <<>>]
    /\ UNCHANGED <<now, aiConfigured, dryRunFlag, fsys, events,
                   nextEv, queues, ignoredFiles, ignoredFileTimeouts, timers,
                   delivered, lastMut>>
    /\ lastCall' = NoCall
    /\ UNCHANGED restVars

\* ------------------------------------------------------------- file tools
BinaryExtensions ==
    {".pdf", ".doc", ".docx", ".xls", ".xlsx", ".ppt", ".pptx", ".jpg",
     ".jpeg", ".png", ".gif", ".webp", ".svg", ".bmp", ".ico", ".mp3", ".wav",
     ".ogg", ".m4a", ".mp4", ".avi", ".mov", ".webm", ".zip", ".tar", ".gz",
     ".rar"}

IsBinaryFileExtension(filePath) == PathExtname(filePath) \in BinaryExtensions

\* resolveWithinFolder with the containment test left out
ResolveWithinFolder_NoCheck(folderPath, target) ==
    LET normalizedFolder == PathResolve(<<"/">>, folderPath) IN
    [ok |-> TRUE, absolute |-> PathResolve(normalizedFolder, target)]

\* resolveWithinFolder (fileTools 442-450): ok is FALSE where the code throws
ResolveWithinFolder(folderPath, target) ==
    LET normalizedFolder == PathResolve(<<"/">>, folderPath)
        absolute == PathResolve(normalizedFolder, target)
        relative == PathRelative(normalizedFolder, absolute)
    IN  [ok |-> ~(StartsWithDotDot(relative) \/ IsAbsolute(relative)),
         absolute |-> absolute]

Ancestors(dir) == {SubSeq(dir, 1, k) : k \in 1..Len(dir)}

\* fs.mkdir(dir, {recursive: true}) succeeds unless a file is in the way
MkdirOk(fs, dir) == \A a \in Ancestors(dir) : ~IsFile(fs, a)

MkdirP(fs, dir) ==
    LET missing == {a \in Ancestors(dir) : ~Exists(fs, a)} IN
    [q \in (DOMAIN fs) \cup missing |-> IF q \in DOMAIN fs THEN fs[q] ELSE DIR]

\* fs.rename(from, to): from and everything below it moves to to
RenameFs(fs, from, to) ==
    LET moving == {x \in DOMAIN fs : Within(from, x)}
        dest(x) == to \o SubSeq(x, Len(from) + 1, Len(x))
        staying == (DOMAIN fs) \ moving
    IN  [q \in staying \cup {dest(x) : x \in moving} |->
            IF q \in staying
            THEN fs[q]
            ELSE fs[CHOOSE x \in moving : dest(x) = q]]

\* what a tool invocation did: its result, the paths its filesystem calls
\* named, the filesystem it leaves, the onFileModified calls in order, the
\* target paths it changed and the files that newly appeared
ToolResult(ok, skipped, touched, fs, marks, mutated, created) ==
    [ok |-> ok, skipped |-> skipped, threw |-> FALSE, touched |-> touched,
     fs |-> fs, marks |-> marks, mutated |-> mutated, created |-> created]

ErrorResult(touched, fs) == ToolResult(FALSE, FALSE, touched, fs, <<>>, {}, {})

SuccessResult(touched, fs) == ToolResult(TRUE, FALSE, touched, fs, <<>>, {}, {})

DryRunResult(fs) == ToolResult(TRUE, TRUE, {}, fs, <<>>, {}, {})

\* invoke rejects: the throw of an argument assertion outside the try block
ThrowResult(fs) == [ErrorResult({}, fs) EXCEPT !.threw = TRUE]

\* assertPathArgument (fileTools 428-433): a non-empty, non-blank string
AssertPathArgument(value) == value # <<>>

\* the path arguments of an argument record
PathArguments(tool, args) ==
    IF tool \in {"rename_file", "move_file"}
    THEN {args.from, args.to}
    ELSE {args.path}

\* read_file, grep, head, tail (fileTools 142-175, 537-566, 748-780, 824-856)
ReadTool(folderPath, fs, target) ==
    IF IsBinaryFileExtension(target) THEN ErrorResult({}, fs)
    ELSE LET r == ResolveWithinFolder(folderPath, target) IN
         IF ~r.ok THEN ErrorResult({}, fs)
         ELSE IF ~IsFile(fs, r.absolute) THEN ErrorResult({r.absolute}, fs)
         ELSE SuccessResult({r.absolute}, fs)

\* write_file without the onFileModified call
WriteFileTool_NoNotify(folderPath, dryRun, fs, target, contents) ==
    IF IsBinaryFileExtension(target) THEN ErrorResult({}, fs)
    ELSE IF dryRun THEN DryRunResult(fs)
    ELSE LET r == ResolveWithinFolder(folderPath, target)
             parent == PathDirname(r.absolute)
         IN
         IF ~r.ok THEN ErrorResult({}, fs)
         ELSE IF ~MkdirOk(fs, parent) THEN ErrorResult({parent}, fs)
         ELSE LET fs1 == MkdirP(fs, parent) IN
              IF Exists(fs1, r.absolute)
              THEN ErrorResult({parent, r.absolute}, fs1)
              ELSE ToolResult(TRUE, FALSE, {parent, r.absolute},
                              MapSet(fs1, r.absolute, contents),
                              <<>>, {r.absolute}, {r.absolute})

\* write_file (fileTools 205-243)
WriteFileTool(folderPath, dryRun, fs, target, contents) ==
    IF IsBinaryFileExtension(target) THEN ErrorResult({}, fs)
    ELSE IF dryRun THEN DryRunResult(fs)
    ELSE LET r == ResolveWithinFolder(folderPath, target)
             parent == PathDirname(r.absolute)
         IN
         IF ~r.ok THEN ErrorResult({}, fs)
         ELSE IF ~MkdirOk(fs, parent) THEN ErrorResult({parent}, fs)
         ELSE LET fs1 == MkdirP(fs, parent) IN
              IF Exists(fs1, r.absolute)
              THEN ErrorResult({parent, r.absolute}, fs1)
              ELSE ToolResult(TRUE, FALSE, {parent, r.absolute},
                              MapSet(fs1, r.absolute, contents),
                              <<r.absolute>>, {r.absolute}, {r.absolute})

\* the extension rule with its second test left out: only a lost extension
\* is rejected
ExtensionPreserved_OnlyLost(fromArg, toArg) ==
    ~(PathExtname(fromArg) # "" /\ PathExtname(toArg) = "")

\* the extension rule of rename_file and move_file (278-298, 389-410)
ExtensionPreserved(fromArg, toArg) ==
    LET fromExt == PathExtname(fromArg)
        toExt == PathExtname(toArg)
    IN  ~(fromExt # "" /\ toExt = "") /\ ~(fromExt # "" /\ toExt # "" /\ fromExt # toExt)

\* the common tail of rename_file and move_file: assertNotExists(to),
\* ensureParentDir(to), fs.rename, onFileModified(to), onFileModified(from)
RenameTail(fs, fromPath, toPath, touchedSoFar) ==
    LET parent == PathDirname(toPath) IN
    IF Exists(fs, toPath) THEN ErrorResult(touchedSoFar \cup {toPath}, fs)
    ELSE IF ~MkdirOk(fs, parent)
         THEN ErrorResult(touchedSoFar \cup {toPath, parent}, fs)
    ELSE LET fs1 == MkdirP(fs, parent)
             touched == touchedSoFar \cup {toPath, parent, fromPath}
         IN  IF Within(fromPath, toPath) \/ fromPath \in StaticDirs
             THEN ErrorResult(touched, fs1)
             ELSE ToolResult(TRUE, FALSE, touched,
                             RenameFs(fs1, fromPath, toPath),
                             <<toPath, fromPath>>, {toPath, fromPath},
                             IF IsFile(fs, fromPath) THEN {toPath} ELSE {})

\* rename_file (fileTools 274-333)
RenameFileTool(folderPath, dryRun, fs, fromArg, toArg) ==
    IF ~ExtensionPreserved(fromArg, toArg) THEN ErrorResult({}, fs)
    ELSE IF dryRun THEN DryRunResult(fs)
    ELSE LET f == ResolveWithinFolder(folderPath, fromArg)
             t == ResolveWithinFolder(folderPath, toArg)
         IN
         IF ~f.ok \/ ~t.ok THEN ErrorResult({}, fs)
         ELSE IF ~Exists(fs, f.absolute) THEN ErrorResult({f.absolute}, fs)
         ELSE RenameTail(fs, f.absolute, t.absolute, {f.absolute})

\* move_file (fileTools 364-424)
MoveFileTool(folderPath, dryRun, fs, fromArg, toArg) ==
    IF dryRun THEN DryRunResult(fs)
    ELSE LET f == ResolveWithinFolder(folderPath, fromArg)
             t == ResolveWithinFolder(folderPath, toArg)
         IN
         IF ~f.ok \/ ~t.ok THEN ErrorResult({}, fs)
         ELSE IF ~Exists(fs, f.absolute) THEN ErrorResult({f.absolute}, fs)
         ELSE IF IsFile(fs, f.absolute) /\ ~ExtensionPreserved(fromArg, toArg)
              THEN ErrorResult({f.absolute}, fs)
         ELSE RenameTail(fs, f.absolute, t.absolute, {f.absolute})

\* the text sed leaves: every occurrence of find replaced; a file's content
\* is one token here, so it either is the text sought or does not contain it
SedReplace(data, find, replace) == IF data = find THEN replace ELSE data

\* sed that notifies whenever it has read the file, rewritten or not
SedTool_AlwaysNotify(folderPath, dryRun, fs, target, find, replace) ==
    IF IsBinaryFileExtension(target) THEN ErrorResult({}, fs)
    ELSE IF dryRun THEN DryRunResult(fs)
    ELSE LET r == ResolveWithinFolder(folderPath, target) IN
         IF ~r.ok THEN ErrorResult({}, fs)
         ELSE IF ~IsFile(fs, r.absolute) THEN ErrorResult({r.absolute}, fs)
         ELSE ToolResult(TRUE, FALSE, {r.absolute},
                         MapSet(fs, r.absolute,
                                SedReplace(fs[r.absolute], find, replace)),
                         <<r.absolute>>, {r.absolute}, {})

\* sed (fileTools 629-717)
SedTool(folderPath, dryRun, fs, target, find, replace) ==
    IF IsBinaryFileExtension(target) THEN ErrorResult({}, fs)
    ELSE IF dryRun THEN DryRunResult(fs)
    ELSE LET r == ResolveWithinFolder(folderPath, target) IN
         IF ~r.ok THEN ErrorResult({}, fs)
         ELSE IF ~IsFile(fs, r.absolute) THEN ErrorResult({r.absolute}, fs)
         ELSE LET data == fs[r.absolute]
                  modified == SedReplace(data, find, replace)
              IN  IF modified # data
                  THEN ToolResult(TRUE, FALSE, {r.absolute},
                                  MapSet(fs, r.absolute, modified),
                                  <<r.absolute>>, {r.absolute}, {})
                  ELSE SuccessResult({r.absolute}, fs)

\* create_folder that creates the directory under dry run as well
CreateFolderTool_NoDryRun(folderPath, dryRun, fs, target) ==
    LET r == ResolveWithinFolder(folderPath, target) IN
    IF ~r.ok THEN ErrorResult({}, fs)
    ELSE IF Exists(fs, r.absolute) THEN ErrorResult({r.absolute}, fs)
    ELSE IF ~MkdirOk(fs, r.absolute) THEN ErrorResult({r.absolute}, fs)
    ELSE ToolResult(TRUE, dryRun, {r.absolute}, MkdirP(fs, r.absolute),
                    <<>>, {r.absolute}, {})

\* create_folder (fileTools 895-917): no onFileModified call
CreateFolderTool(folderPath, dryRun, fs, target) ==
    IF dryRun THEN DryRunResult(fs)
    ELSE LET r == ResolveWithinFolder(folderPath, target) IN
         IF ~r.ok THEN ErrorResult({}, fs)
         ELSE IF Exists(fs, r.absolute) THEN ErrorResult({r.absolute}, fs)
         ELSE IF ~MkdirOk(fs, r.absolute) THEN ErrorResult({r.absolute}, fs)
         ELSE ToolResult(TRUE, FALSE, {r.absolute}, MkdirP(fs, r.absolute),
                         <<>>, {r.absolute}, {})

\* the argument records the model may hand to a tool, over a set of paths
ToolArgsOver(tool, targets) ==
    IF tool \in {"read_file", "grep", "head", "tail", "create_folder"}
    THEN {[path |-> p] : p \in targets}
    ELSE IF tool = "write_file"
    THEN {[path |-> p, contents |-> "c2"] : p \in targets}
    ELSE IF tool = "sed"
    THEN {[path |-> p, find |-> c, replace |-> d] :
             p \in targets, c \in Contents, d \in Contents}
    ELSE {[from |-> p, to |-> q] : p \in targets, q \in targets}

ToolArgs(tool) == ToolArgsOver(tool, Targets)

\* the arguments tried in a running session: the names inside the folder
SessionArgs(tool) == ToolArgsOver(tool, SessionTargets)

\* FileToolRegistry.invokeTool (fileTools 107-117)
InvokeTool(tool, args, folderPath, dryRun, fs) ==
    IF \E a \in PathArguments(tool, args) : ~AssertPathArgument(a)
    THEN ThrowResult(fs)
    ELSE
    CASE tool \in {"read_file", "grep", "head", "tail"} ->
            ReadTool(folderPath, fs, args.path)
      [] tool = "write_file" ->
            WriteFileTool(folderPath, dryRun, fs, args.path, args.contents)
      [] tool = "rename_file" ->
            RenameFileTool(folderPath, dryRun, fs, args.from, args.to)
      [] tool = "move_file" ->
            MoveFileTool(folderPath, dryRun, fs, args.from, args.to)
      [] tool = "sed" ->
            SedTool(folderPath, dryRun, fs, args.path, args.find, args.replace)
      [] tool = "create_folder" ->
            CreateFolderTool(folderPath, dryRun, fs, args.path)

\* folder.dryRun of the configuration under test
\* An optional boolean of the configuration file is the empty set when the key
\* is absent (undefined or null) and a singleton otherwise.
Undefined == {}

\* The folders of the configuration file: FolderA sets dryRun: true, FolderB
\* leaves the key out.
RawFolderDryRun(folder) == IF folder = FolderA THEN {TRUE} ELSE Undefined

\* a ?? b
Coalesce(a, b) == IF a # Undefined THEN a ELSE b

\* handleRunCommand passes Boolean(options.dryRun), always a boolean, as the
\* override of loadConfig; normalizeFolderConfig takes the override first.
NormalizeFolderDryRun(dryRunOverride, raw) ==
    TRUE \in Coalesce(dryRunOverride, Coalesce(raw, {FALSE}))

\* folder.dryRun of the normalised FolderConfig
FolderDryRun(folder) ==
    NormalizeFolderDryRun({dryRunFlag}, RawFolderDryRun(folder))

\* onFileModified for each path in turn (runJob 313-316)
RECURSIVE ApplyMarks(_, _, _)
ApplyMarks(st, t, marks) ==
    IF marks = <<>> THEN st
    ELSE ApplyMarks(IgnoreFile(st, t, Head(marks)), t, Tail(marks))

\* the log of tool mutations: for each target path changed, when it was
\* last changed and by which tool, when the path was last reported through
\* onFileModified (0: never) and how many times
RECURSIVE StampAll(_, _, _, _, _)
StampAll(m, paths, t, marked, tool) ==
    IF paths = {} THEN m
    ELSE LET p == CHOOSE x \in paths : TRUE
             before == IF p \in DOMAIN m THEN m[p].markAt ELSE 0
             count == IF p \in DOMAIN m THEN m[p].marks ELSE 0
         IN  StampAll(MapSet(m, p, [at |-> t, by |-> tool,
                                    markAt |-> IF p \in marked THEN t ELSE before,
                                    marks |-> IF p \in marked THEN count + 1 ELSE count]),
                      paths \ {p}, t, marked, tool)

SeqRange(s) == {s[i] : i \in 1..Len(s)}

\* one tool call of the model inside runWorkflow: the execute callback of
\* aiClient 252-298 with the context of runJob 309-317
ToolCall(j, tool, args) ==
    /\ j \in 1..Len(jobs)
    /\ jobs[j].pc = "workflow"
    /\ ~StopWhen(jobs[j].steps)
    /\ tool \in GetToolDefinitions(FolderTools(jobs[j].folder))
    /\ args \in ToolArgs(tool)
    /\ LET folder == jobs[j].folder
           r == InvokeTool(tool, args, folder,
                           jobs[j].dryRun \/ FolderDryRun(folder), fsys)
           evs == AddEvents(r.created, "tool", nextEv)
           st == ApplyMarks([files |-> ignoredFiles,
                             timeouts |-> ignoredFileTimeouts,
                             timers |-> timers], now, r.marks)
       IN  /\ nextEv + Cardinality(evs) <= MaxEvents + 1
           /\ fsys' = r.fs
           /\ events' = events \cup evs
           /\ nextEv' = nextEv + Cardinality(evs)
           /\ ignoredFiles' = st.files
           /\ ignoredFileTimeouts' = st.timeouts
           /\ timers' = st.timers
           /\ lastMut' = StampAll(lastMut, r.mutated, now, SeqRange(r.marks), tool)
    /\ jobs' = [jobs EXCEPT ![j].steps = @ + 1]
    /\ UNCHANGED <<now, aiConfigured, dryRunFlag, queues, history,
                   delivered, lastCall>>
    /\ UNCHANGED restVars

\* time passes; chokidar delivers an add event as soon as it is due and a
\* chained job starts in the microtask after its predecessor settles; a
\* workflow may take any time
Tick ==
    /\ now < MaxTime
    /\ \A e \in events : e.readyAt > now
    /\ \A tm \in timers : tm.due + TimerLateMs > now
    /\ \A j \in 1..Len(jobs) : jobs[j].pc = "pending" => ~CanStart(j)
    /\ now' = now + TickMs
    /\ UNCHANGED <<aiConfigured, dryRunFlag, fsys, events, nextEv,
                   jobs, queues, ignoredFiles, ignoredFileTimeouts, timers,
                   history, delivered, lastMut>>
    /\ lastCall' = NoCall
    /\ UNCHANGED restVars

Next ==
    \/ Tick
    \/ \E tm \in timers : TimerFire(tm)
    \/ \E f \in Folders, n \in DropNames : UserAdd(f, n, "c1")
    \/ \E e \in events : Deliver(e)
    \/ \E j \in 1..Len(jobs) : StartJob(j)
    \/ \E j \in 1..Len(jobs), ok \in BOOLEAN : WorkflowReturns(j, ok)
    \/ \E j \in 1..Len(jobs), thrown \in {"Error", "nullish"}, ok \in BOOLEAN :
          WorkflowThrows(j, thrown, ok)
    \/ \E j \in 1..Len(jobs), tool \in ToolIds :
          \E args \in SessionArgs(tool) : ToolCall(j, tool, args)

Spec == Init /\ [][Next]_vars

\* ------------------------------------------- one tool invocation in isolation
\* the contents of FolderA a tool invocation may find: f.txt and g.txt absent
\* or present, d absent, a file, an empty directory or one holding f.txt
ToolFilesystems ==
    LET opt(p, vals) == {EmptyMap} \cup {MapSet(EmptyMap, p, v) : v \in vals}
        join(m1, m2) == [q \in (DOMAIN m1) \cup (DOMAIN m2) |->
                            IF q \in DOMAIN m1 THEN m1[q] ELSE m2[q]]
        fs1 == opt(FolderA \o <<"f.txt">>, {"c1"})
        fs2 == opt(FolderA \o <<"g.txt">>, {"c1"})
        fs3 == opt(FolderA \o <<"d">>, {"c1", DIR})
                 \cup {MapSet(MapSet(EmptyMap, FolderA \o <<"d">>, DIR),
                               FolderA \o <<"d", "f.txt">>, "c1")}
    IN  {join(join(m1, m2), m3) : m1 \in fs1, m2 \in fs2, m3 \in fs3}

ToolInit ==
    /\ RestInit
    /\ now = StartTime
    /\ aiConfigured = TRUE
    /\ dryRunFlag \in BOOLEAN
    /\ fsys \in ToolFilesystems
    /\ events = {}
    /\ nextEv = 1
    /\ jobs = <<>>
    /\ queues = EmptyMap
    /\ ignoredFiles = EmptyMap
    /\ ignoredFileTimeouts = EmptyMap
    /\ timers = {}
    /\ history = [f \in Folders |-> <<>>]
    /\ delivered = EmptyMap
    /\ lastCall = NoCall
    /\ lastMut = EmptyMap

\* FileToolRegistry.invokeTool on FolderA with the context runJob builds
\* (orchestrator 309-317): any tool, any arguments, dry run on or off
ToolInvoke(tool, args) ==
    /\ lastCall.tool = "none"
    /\ tool \in ToolIds
    /\ args \in ToolArgs(tool)
    /\ LET dryRun == dryRunFlag \/ FolderDryRun(FolderA)
           r == InvokeTool(tool, args, FolderA, dryRun, fsys)
           st == ApplyMarks([files |-> ignoredFiles,
                             timeouts |-> ignoredFileTimeouts,
                             timers |-> timers], now, r.marks)
       IN  /\ fsys' = r.fs
           /\ ignoredFiles' = st.files
           /\ ignoredFileTimeouts' = st.timeouts
           /\ timers' = st.timers
           /\ lastMut' = StampAll(lastMut, r.mutated, now, SeqRange(r.marks), tool)
           /\ lastCall' = [tool |-> tool, args |-> args, folder |-> FolderA,
                           dryRun |-> dryRun, before |-> fsys, ok |-> r.ok,
                           skipped |-> r.skipped, threw |-> r.threw,
                           touched |-> r.touched, marks |-> r.marks,
                           mutated |-> r.mutated]
    /\ UNCHANGED <<now, aiConfigured, dryRunFlag, events, nextEv, jobs, queues,
                   history, delivered>>
    /\ UNCHANGED restVars

ToolNext == \E tool \in ToolIds : \E args \in ToolArgs(tool) : ToolInvoke(tool, args)

ToolSpec == ToolInit /\ [][ToolNext]_vars

\* --------------------------------------- the tool calls of a step in flight
\* the largest number of tool calls in one model response
MaxCallsPerStep == 2

\* the tool calls a model response may hold
DriverCalls ==
    { [tool |-> "write_file", args |-> [path |-> <<"g.txt">>, contents |-> "c2"]],
      [tool |-> "rename_file", args |-> [from |-> <<"f.txt">>, to |-> <<"g.txt">>]],
      [tool |-> "move_file", args |-> [from |-> <<"g.txt">>, to |-> <<"d", "f.txt">>]],
      [tool |-> "read_file", args |-> [path |-> <<"f.txt">>]],
      [tool |-> "read_file", args |-> [path |-> <<>>]] }

\* the tool calls of one model response, in the order the model gave them
StepCalls == UNION {[1..n -> DriverCalls] : n \in 1..MaxCallsPerStep}

\* the tools whose invoke awaits its checks (resolveWithinFolder,
\* assertExists, assertNotExists, ensureParentDir) and then, in a later turn
\* of the event loop, the call that changes the file
SplitTools == {"write_file", "rename_file", "move_file"}

\* fs.writeFile(absolute, contents, "utf8") and onFileModified (fileTools
\* 226-228): the default flag 'w' creates the file or truncates the one there
WriteCommit(fs, absolute, contents) ==
    IF IsDir(fs, absolute) \/ ~IsDir(fs, PathDirname(absolute))
    THEN ErrorResult({absolute}, fs)
    ELSE ToolResult(TRUE, FALSE, {absolute}, MapSet(fs, absolute, contents),
                    <<absolute>>, {absolute},
                    IF Exists(fs, absolute) THEN {} ELSE {absolute})

\* fs.rename(fromPath, toPath) and the two onFileModified calls (fileTools
\* 315-320): rename(2) replaces a file at toPath, and an empty directory
\* when fromPath is a directory
RenameCommit(fs, fromPath, toPath) ==
    LET below == {x \in DOMAIN fs : x # toPath /\ Within(toPath, x)} IN
    IF \/ ~Exists(fs, fromPath)
       \/ fromPath \in StaticDirs
       \/ ~IsDir(fs, PathDirname(toPath))
       \/ Within(fromPath, toPath)
       \/ IsDir(fs, toPath) /\ (IsFile(fs, fromPath) \/ below # {} \/ toPath \in StaticDirs)
       \/ IsFile(fs, toPath) /\ IsDir(fs, fromPath)
    THEN ErrorResult({fromPath, toPath}, fs)
    ELSE ToolResult(TRUE, FALSE, {fromPath, toPath},
                    RenameFs(MapDelete(fs, toPath), fromPath, toPath),
                    <<toPath, fromPath>>, {toPath, fromPath},
                    IF IsFile(fs, fromPath) /\ ~Exists(fs, toPath)
                    THEN {toPath} ELSE {})

\* generateText receives a model response with tool calls: one more step
ModelStep(j, cs) ==
    /\ j \in 1..Len(jobs)
    /\ jobs[j].pc = "workflow"
    /\ CallsDone(j)
    /\ ~StopWhen(jobs[j].steps)
    /\ cs \in StepCalls
    /\ \A i \in 1..Len(cs) :
           cs[i].tool \in GetToolDefinitions(FolderTools(jobs[j].folder))
    /\ jobs' = [jobs EXCEPT
                  ![j].steps = @ + 1,
                  ![j].calls = [i \in 1..Len(cs) |->
                                   [tool |-> cs[i].tool, args |-> cs[i].args,
                                    phase |-> "todo", pass |-> FALSE,
                                    ok |-> FALSE, skipped |-> FALSE,
                                    threw |-> FALSE]]]
    /\ UNCHANGED <<now, aiConfigured, dryRunFlag, fsys, events, nextEv, queues,
                   ignoredFiles, ignoredFileTimeouts, timers, history,
                   delivered, lastMut>>
    /\ lastCall' = NoCall
    /\ UNCHANGED restVars

\* the SDK calls execute for a tool call of the step (aiClient 252-266); the
\* callbacks are independent async functions, nothing in runWorkflow makes
\* one wait for another.  A tool of SplitTools runs up to its last check.
BeginCall(j, i) ==
    /\ j \in 1..Len(jobs)
    /\ jobs[j].pc = "workflow"
    /\ i \in 1..Len(jobs[j].calls)
    /\ jobs[j].calls[i].phase = "todo"
    /\ LET c == jobs[j].calls[i]
           folder == jobs[j].folder
           r0 == InvokeTool(c.tool, c.args, folder,
                            jobs[j].dryRun \/ FolderDryRun(folder), fsys)
           pass == c.tool \in SplitTools /\ r0.ok /\ ~r0.skipped
           dest == PathResolve(folder, IF c.tool = "write_file"
                                       THEN c.args.path ELSE c.args.to)
       IN  /\ fsys' = IF c.tool \notin SplitTools THEN fsys
                      ELSE IF pass THEN MkdirP(fsys, PathDirname(dest))
                      ELSE r0.fs
           /\ jobs' = [jobs EXCEPT ![j].calls[i] =
                          IF c.tool \in SplitTools
                          THEN [c EXCEPT !.phase = "started", !.pass = pass,
                                         !.ok = r0.ok, !.skipped = r0.skipped,
                                         !.threw = r0.threw]
                          ELSE [c EXCEPT !.phase = "started"]]
    /\ UNCHANGED <<now, aiConfigured, dryRunFlag, events, nextEv, queues,
                   ignoredFiles, ignoredFileTimeouts, timers, history,
                   delivered, lastMut>>
    /\ lastCall' = NoCall
    /\ UNCHANGED restVars

\* a started tool call runs to its end: the file is changed, the self-change
\* is notified, the result is pushed to toolResults (aiClient 268-297)
\* unless invoke threw
FinishCall(j, i) ==
    /\ j \in 1..Len(jobs)
    /\ jobs[j].pc = "workflow"
    /\ i \in 1..Len(jobs[j].calls)
    /\ jobs[j].calls[i].phase = "started"
    /\ LET c == jobs[j].calls[i]
           folder == jobs[j].folder
           dryRun == jobs[j].dryRun \/ FolderDryRun(folder)
           r == IF c.tool \notin SplitTools
                THEN InvokeTool(c.tool, c.args, folder, dryRun, fsys)
                ELSE IF ~c.pass
                THEN [ToolResult(c.ok, c.skipped, {}, fsys, <<>>, {}, {})
                         EXCEPT !.threw = c.threw]
                ELSE IF c.tool = "write_file"
                THEN WriteCommit(fsys, PathResolve(folder, c.args.path),
                                 c.args.contents)
                ELSE RenameCommit(fsys, PathResolve(folder, c.args.from),
                                  PathResolve(folder, c.args.to))
           evs == AddEvents(r.created, "tool", nextEv)
           st == ApplyMarks([files |-> ignoredFiles,
                             timeouts |-> ignoredFileTimeouts,
                             timers |-> timers], now, r.marks)
       IN  /\ nextEv + Cardinality(evs) <= MaxEvents + 1
           /\ fsys' = r.fs
           /\ events' = events \cup evs
           /\ nextEv' = nextEv + Cardinality(evs)
           /\ ignoredFiles' = st.files
           /\ ignoredFileTimeouts' = st.timeouts
           /\ timers' = st.timers
           /\ lastMut' = StampAll(lastMut, r.mutated, now, SeqRange(r.marks), c.tool)
           /\ jobs' = [jobs EXCEPT
                         ![j].calls[i].phase = "done",
                         ![j].toolResults =
                             IF r.threw THEN @
                             ELSE Append(@, [step |-> jobs[j].steps,
                                             call |-> i, ok |-> r.ok])]
           /\ lastCall' = [tool |-> c.tool, args |-> c.args, folder |-> folder,
                           dryRun |-> dryRun, before |-> fsys, ok |-> r.ok,
                           skipped |-> r.skipped, threw |-> r.threw,
                           touched |-> r.touched, marks |-> r.marks,
                           mutated |-> r.mutated]
    /\ UNCHANGED <<now, aiConfigured, dryRunFlag, queues, history, delivered>>
    /\ UNCHANGED restVars

\* a session in which the job of f.txt, dropped into FolderA, has entered
\* runWorkflow; g.txt has not been dropped yet, or it has and its job waits
\* behind the first
DriverInit ==
    /\ RestInit
    /\ now = StartTime + DebounceMs(FolderA)
    /\ aiConfigured = TRUE
    /\ dryRunFlag \in BOOLEAN
    /\ events = {}
    /\ ignoredFiles = EmptyMap
    /\ ignoredFileTimeouts = EmptyMap
    /\ timers = {}
    /\ history = [f \in Folders |-> <<>>]
    /\ lastCall = NoCall
    /\ lastMut = EmptyMap
    /\ LET first == [NewJob(1, FolderA, FolderA \o <<"f.txt">>, dryRunFlag, 0)
                        EXCEPT !.pc = "workflow"]
           second == NewJob(2, FolderA, FolderA \o <<"g.txt">>, dryRunFlag, 1)
           user == [cause |-> "user", ignored |-> FALSE]
       IN  \/ /\ fsys = MapSet(EmptyMap, FolderA \o <<"f.txt">>, "c1")
              /\ nextEv = 2
              /\ jobs = <<first>>
              /\ queues = MapSet(EmptyMap, QueueKey(FolderA), 1)
              /\ delivered = MapSet(EmptyMap, 1, user)
           \/ /\ fsys = MapSet(MapSet(EmptyMap, FolderA \o <<"f.txt">>, "c1"),
                               FolderA \o <<"g.txt">>, "c1")
              /\ nextEv = 3
              /\ jobs = <<first, second>>
              /\ queues = MapSet(EmptyMap, QueueKey(FolderA), 2)
              /\ delivered = MapSet(MapSet(EmptyMap, 1, user), 2, user)

\* the jobs run and the user may drop g.txt meanwhile; the clock stands still
DriverNext ==
    \/ \E n \in DropNames : UserAdd(FolderA, n, "c1")
    \/ \E j \in 1..Len(jobs) : StartJob(j)
    \/ \E j \in 1..Len(jobs), ok \in BOOLEAN : WorkflowReturns(j, ok)
    \/ \E j \in 1..Len(jobs), thrown \in {"Error", "nullish"}, ok \in BOOLEAN :
          WorkflowThrows(j, thrown, ok)
    \/ \E j \in 1..Len(jobs), cs \in StepCalls : ModelStep(j, cs)
    \/ \E j \in 1..Len(jobs), i \in 1..MaxCallsPerStep : BeginCall(j, i)
    \/ \E j \in 1..Len(jobs), i \in 1..MaxCallsPerStep : FinishCall(j, i)

DriverSpec == DriverInit /\ [][DriverNext]_vars


\* ------------------------------------------------- folder state metadata
\* ensureFolderMetadata calls of a folder, each at the time of the clock, with
\* the outcomes the filesystem can give to its read and to its write.
MaxMetaCalls == 3   \* calls of ensureFolderMetadata
MaxMetaTicks == 3   \* milliseconds the clock advances

MetaPrompts == {"", "p1", "p2"}

\* the try branch after JSON.parse: lastRunAt becomes the time of the call,
\* the prompt is replaced when one is given, the other fields are kept
UpdateMetadata(metadata, prompt, t) ==
    [metadata EXCEPT !.lastRunAt = t,
                     !.prompt = IF prompt # "" THEN prompt ELSE @]

\* the catch branch: a new record
CreateMetadata(prompt, t) ==
    [kind |-> "json", firstWatchedAt |-> t, lastRunAt |-> t, prompt |-> prompt]

\* fs.writeFile truncates the file and writes: it succeeds, fails before it
\* opened the file, or fails after it truncated it
WriteOutcomes == {"ok", "failed", "truncated"}

\* ensureFolderMetadata(folderPath, prompt).  readOk is whether fs.readFile
\* succeeds on a file that exists; a missing file, a failed read and a failed
\* JSON.parse all reach the catch branch.
EnsureFolderMetadata(prompt, readOk, written) ==
    /\ metaLog.calls < MaxMetaCalls
    /\ LET parsed == metadataFile.kind = "json" /\ readOk
           metadata == IF parsed THEN UpdateMetadata(metadataFile, prompt, now)
                       ELSE CreateMetadata(prompt, now)
       IN  /\ metadataFile' =
                  IF written = "ok" THEN metadata
                  ELSE IF written = "truncated"
                  THEN [NoMetadata EXCEPT !.kind = "corrupt"]
                  ELSE metadataFile
           /\ metaLog' =
                  [calls |-> metaLog.calls + 1,
                   first |-> IF metaLog.first = 0 /\ written = "ok"
                             THEN metadata.firstWatchedAt ELSE metaLog.first,
                   created |-> IF written = "ok" /\ ~parsed THEN now
                               ELSE metaLog.created,
                   at |-> now,
                   resolved |-> written = "ok"]
    /\ UNCHANGED <<coreVars, discVars, proc, auxVars>>

\* the clock between two calls
MetaTick ==
    /\ now < StartTime + MaxMetaTicks
    /\ now' = now + 1
    /\ UNCHANGED <<aiConfigured, dryRunFlag, fsys, events, nextEv, jobs, queues,
                   ignoredFiles, ignoredFileTimeouts, timers, history,
                   delivered, lastCall, lastMut, restVars>>

MetaStartInit ==
    /\ Init
    /\ aiConfigured = TRUE
    /\ dryRunFlag = FALSE

MetaNext ==
    \/ \E prompt \in MetaPrompts : \E readOk \in BOOLEAN :
       \E written \in WriteOutcomes : EnsureFolderMetadata(prompt, readOk, written)
    \/ MetaTick

MetaSpec == MetaStartInit /\ [][MetaNext]_vars

\* ---------------------------------------------------------------- shutdown
\* The jobs of the driver while the process receives SIGINT or SIGTERM.
Unsettled == {j \in 1..Len(jobs) : jobs[j].pc # "settled"}

\* SIGINT or SIGTERM arrives.  With the handlers of holdProcessOpen installed,
\* handleSignal runs up to its await: cleanup() takes both handlers off and
\* watchSession.close() starts closing every chokidar watcher, which drops the
\* add events still waiting for awaitWriteFinish.  With the handlers off the
\* signal has its default disposition and ends the process.
Signal ==
    /\ proc.state = "running"
    /\ IF proc.handlers
       THEN /\ proc' = [proc EXCEPT !.handlers = FALSE, !.session = "closing",
                                    !.inFlight = Unsettled]
            /\ events' = {}
       ELSE /\ proc' = [proc EXCEPT !.state = "killed"]
            /\ events' = events
    /\ UNCHANGED <<now, aiConfigured, dryRunFlag, fsys, nextEv, jobs, queues,
                   ignoredFiles, ignoredFileTimeouts, timers, history,
                   delivered, lastCall, lastMut, discVars, sideVars>>

\* watchSession.close() resolves and handleSignal calls resolve(): the promise
\* of holdProcessOpen, startRunSession and runCli resolve
CloseDone ==
    /\ proc.state = "running"
    /\ proc.session = "closing"
    /\ proc' = [proc EXCEPT !.session = "closed"]
    /\ UNCHANGED <<coreVars, discVars, sideVars>>

\* handleSignal ending with process.exit()
Exit_AfterClose ==
    /\ proc.state = "running"
    /\ proc.session = "closed"
    /\ proc' = [proc EXCEPT !.state = "exited"]
    /\ UNCHANGED <<coreVars, discVars, sideVars>>

\* Nothing calls process.exit after runCli resolved (bin/smartfolder.js exits
\* only in its catch), so the process ends when the event loop has nothing
\* left: no job with a pending promise and no cleanup timer.
Exit ==
    /\ proc.state = "running"
    /\ proc.session = "closed"
    /\ Unsettled = {}
    /\ timers = {}
    /\ proc' = [proc EXCEPT !.state = "exited"]
    /\ UNCHANGED <<coreVars, discVars, sideVars>>

ShutdownNext ==
    \/ /\ proc.state = "running"
       /\ \/ \E j \in 1..Len(jobs) : StartJob(j)
          \/ \E j \in 1..Len(jobs), ok \in BOOLEAN : WorkflowReturns(j, ok)
          \/ \E j \in 1..Len(jobs), thrown \in {"Error", "nullish"},
                ok \in BOOLEAN : WorkflowThrows(j, thrown, ok)
          \/ \E j \in 1..Len(jobs), cs \in StepCalls : ModelStep(j, cs)
          \/ \E j \in 1..Len(jobs), i \in 1..MaxCallsPerStep : BeginCall(j, i)
          \/ \E j \in 1..Len(jobs), i \in 1..MaxCallsPerStep : FinishCall(j, i)
    \/ Signal
    \/ CloseDone
    \/ Exit

ShutdownSpec == DriverInit /\ [][ShutdownNext]_vars

\* ------------------------------------------------- smart-folder discovery
\* SmartFolderMdDiscovery over one root that can hold one smartfolder.md, with
\* the DynamicWatcherManager its callbacks drive.  discoverAll runs, watcher
\* handlers and removals are processes that advance from one await to the next.
MaxPolls == 3       \* discoverAll runs: the initial one and the interval's
MaxEdits == 4       \* creations, modifications and deletions of the file
MaxScans == 2       \* discoverAll runs in flight together

MAX_SMARTFOLDER_MD_SIZE == 1024 * 1024

MAX_PROMPT_LENGTH == 50000

\* A smartfolder.md as parseConfig sees it: the size lstat reports, the length
\* of content.trim(), whether the text holds a NUL character.  The name stands
\* for the trimmed text.
NoFile == [name |-> "absent", size |-> 0, length |-> 0, nul |-> FALSE]

MdFiles ==
    {[name |-> "p1", size |-> 10, length |-> 8, nul |-> FALSE],
     [name |-> "p2", size |-> MAX_SMARTFOLDER_MD_SIZE,
      length |-> MAX_PROMPT_LENGTH, nul |-> FALSE],
     [name |-> "blank", size |-> 2, length |-> 0, nul |-> FALSE],
     [name |-> "large", size |-> MAX_SMARTFOLDER_MD_SIZE + 1, length |-> 8,
      nul |-> FALSE],
     [name |-> "long", size |-> MAX_PROMPT_LENGTH + 1,
      length |-> MAX_PROMPT_LENGTH + 1, nul |-> FALSE],
     [name |-> "nul", size |-> 10, length |-> 8, nul |-> TRUE]}

\* the files the parsing contract accepts: at most 1 MiB, a prompt of 1 to
\* 50,000 characters, no NUL character
Acceptable(file) ==
    /\ file.size <= MAX_SMARTFOLDER_MD_SIZE
    /\ file.length \in 1..MAX_PROMPT_LENGTH
    /\ ~file.nul

\* validatePromptSafety without the NUL test
ValidatePromptSafety_WarnOnly(file) == TRUE

\* validatePromptSafety (1336-1355): repetition and control characters only
\* warn; a NUL character throws
ValidatePromptSafety(file) == ~file.nul

\* parseConfig (1288-1330): the prompt, or "none" when it throws
ParseConfig(file) ==
    IF file = NoFile THEN "none"
    ELSE IF file.size > MAX_SMARTFOLDER_MD_SIZE THEN "none"
    ELSE IF file.length = 0 THEN "none"
    ELSE IF file.length > MAX_PROMPT_LENGTH THEN "none"
    ELSE IF ~ValidatePromptSafety(file) THEN "none"
    ELSE file.name

Saturate(n) == IF n >= 2 THEN 2 ELSE n + 1

Max(a, b) == IF a >= b THEN a ELSE b

Polls == {p \in discovery : p.kind = "poll"}

\* DynamicWatcherManager.addWatcher (121-143) up to its await: no second
\* watcher for a folder that has an entry, even one that is closing
AddWatcher(w, prompt) == IF w # "none" THEN w ELSE prompt

\* DynamicWatcherManager.updatePrompt (176-193)
UpdatePrompt(w, prompt) == IF w \in {"none", "closing"} THEN w ELSE prompt

\* DynamicWatcherManager.removeWatcher (149-167) up to its await
RemoveWatcher(w) == IF w = "none" THEN w ELSE "closing"

\* the callbacks the supervisor gives to discovery in root mode: a folder
\* watcher is attached on the directory of an added file with the file's
\* content as prompt, follows its changes, and is detached on its removal
OnConfigAdded(w, prompt) == AddWatcher(w, prompt)

OnConfigRemoved(w) == RemoveWatcher(w)

OnConfigChanged(w, prompt) == UpdatePrompt(w, prompt)

\* a callback of discovery is invoked (1211, 1236, 1267); nothing on the way
\* to it looks at isRunning
Callback(t) == [t EXCEPT !.late = @ \/ t.stopped]

\* a process ends.  A discoverAll run that started with nothing in flight and
\* ends with the file as it was at its start is a completed tick for that
\* state of the file.
Finished(p, t) ==
    IF p.kind = "poll" /\ p.at = t.edits
    THEN [t EXCEPT !.polledAt = Max(@, p.at)]
    ELSE t

\* onConfigRemoved is called: removeWatcher (149-167) up to its await
NotifyRemoved(p, others) ==
    LET t == Callback([tally EXCEPT !.removed = Saturate(@)]) IN
    /\ watchers' = OnConfigRemoved(watchers)
    /\ IF watchers = "none"
       THEN /\ discovery' = others
            /\ tally' = Finished(p, t)
       ELSE /\ discovery' = others \cup {[p EXCEPT !.pc = "detach"]}
            /\ tally' = t

\* removeConfig (1220-1237) up to its first await; a watcher that is being
\* closed emits nothing more
RemoveConfig(p, others) ==
    /\ discoveredConfigs' = "none"
    /\ mdEvents' = IF fileWatchers # "none" THEN {} ELSE mdEvents
    /\ IF fileWatchers # "none"
       THEN /\ fileWatchers' = "closing"
            /\ discovery' = others \cup {[p EXCEPT !.pc = "close"]}
            /\ UNCHANGED <<watchers, tally>>
       ELSE /\ fileWatchers' = fileWatchers
            /\ NotifyRemoved(p, others)

\* chokidar emits nothing once close() was called
WatcherEvents(e) ==
    IF fileWatchers = "watching" \/ tally.orphan THEN mdEvents \cup {e}
    ELSE mdEvents

EditTally(valid) ==
    [tally EXCEPT !.edits = @ + 1, !.everValid = @ \/ valid]

\* the user creates the file.  A creation that follows a deletion the watcher
\* has not reported yet is an atomic replacement, which chokidar may report
\* as a change instead of an unlink.
MdCreate(file, asChange) ==
    /\ tally.edits < MaxEdits
    /\ mdFile = NoFile
    /\ mdFile' = file
    /\ asChange => "unlink" \in mdEvents
    /\ mdEvents' = IF asChange THEN (mdEvents \ {"unlink"}) \cup {"change"}
                   ELSE mdEvents
    /\ tally' = [EditTally(Acceptable(file)) EXCEPT !.added = 0]
    /\ UNCHANGED <<coreVars, discoveredConfigs, fileWatchers, discovery,
                   watchers, proc, sideVars>>

MdModify(file) ==
    /\ tally.edits < MaxEdits
    /\ mdFile # NoFile
    /\ mdFile # file
    /\ mdFile' = file
    /\ mdEvents' = WatcherEvents("change")
    /\ tally' = EditTally(Acceptable(file))
    /\ UNCHANGED <<coreVars, discoveredConfigs, fileWatchers, discovery,
                   watchers, proc, sideVars>>

MdDelete ==
    /\ tally.edits < MaxEdits
    /\ mdFile # NoFile
    /\ mdFile' = NoFile
    /\ mdEvents' = WatcherEvents("unlink")
    /\ tally' = [EditTally(FALSE) EXCEPT !.removed = 0,
                                         !.deleted = discoveredConfigs # "none",
                                         !.refused = FALSE]
    /\ UNCHANGED <<coreVars, discoveredConfigs, fileWatchers, discovery,
                   watchers, proc, sideVars>>

\* start() runs discoverAll and awaits it; afterwards setInterval starts one
\* every pollIntervalMs, whether or not the one before has returned
PollTick ==
    /\ tally.isRunning
    /\ tally.polls < MaxPolls
    /\ Cardinality(Polls) < MaxScans
    /\ tally.polls = 1 => Polls = {}
    /\ discovery' = discovery \cup
           {[id |-> tally.polls + 1, kind |-> "poll", pc |-> "scan",
             found |-> FALSE,
             at |-> IF discovery = {} /\ mdEvents = {} THEN tally.edits
                    ELSE 0]}
    /\ tally' = [tally EXCEPT !.polls = @ + 1]
    /\ UNCHANGED <<coreVars, mdFile, discoveredConfigs, fileWatchers, mdEvents,
                   watchers, proc, sideVars>>

\* findSmartfolderMdFiles (1103-1177) meets the entry of the file: lstat says
\* whether a regular file of that name is there
Observe(p) ==
    /\ p \in discovery
    /\ p.pc = "scan"
    /\ discovery' = (discovery \ {p}) \cup
           {[p EXCEPT !.pc = "add", !.found = mdFile # NoFile]}
    /\ UNCHANGED <<coreVars, mdFile, discoveredConfigs, fileWatchers, mdEvents,
                   watchers, tally, proc, sideVars>>

\* discoverAll (1080-1088): the walk has returned; a found file that is not
\* discovered goes to addConfig, which awaits parseConfig
DiffAdd(p) ==
    /\ p \in discovery
    /\ p.pc = "add"
    /\ discovery' = (discovery \ {p}) \cup
           {[p EXCEPT !.pc = IF p.found /\ discoveredConfigs = "none"
                             THEN "parse" ELSE "remove"]}
    /\ UNCHANGED <<coreVars, mdFile, discoveredConfigs, fileWatchers, mdEvents,
                   watchers, tally, proc, sideVars>>

\* watchConfigFile (1242-1283): no watcher when the map has an entry
WatchConfigFile(fw) == IF fw # "none" THEN fw ELSE "watching"

\* addConfig (1200-1215) after parseConfig: the config is stored, the file is
\* watched, onConfigAdded is called; a parse error is only logged
AddParsed(p) ==
    /\ p \in discovery
    /\ p.kind = "poll"
    /\ p.pc = "parse"
    /\ LET prompt == ParseConfig(mdFile) IN
       IF prompt # "none"
       THEN /\ discoveredConfigs' = prompt
            /\ fileWatchers' = WatchConfigFile(fileWatchers)
            /\ watchers' = OnConfigAdded(watchers, prompt)
            /\ tally' = Callback([tally EXCEPT !.added = Saturate(@)])
       ELSE /\ tally' = [tally EXCEPT !.rejected = mdFile # NoFile \/ @,
                                      !.refused = mdFile # NoFile \/ @]
            /\ UNCHANGED <<discoveredConfigs, fileWatchers, watchers>>
    /\ discovery' = (discovery \ {p}) \cup {[p EXCEPT !.pc = "remove"]}
    /\ UNCHANGED <<coreVars, mdFile, mdEvents, proc, sideVars>>

\* discoverAll (1090-1097): a discovered path the walk did not find is removed
DiffRemove(p) ==
    /\ p \in discovery
    /\ p.pc = "remove"
    /\ IF discoveredConfigs # "none" /\ ~p.found
       THEN RemoveConfig(p, discovery \ {p})
       ELSE /\ discovery' = discovery \ {p}
            /\ tally' = Finished(p, tally)
            /\ UNCHANGED <<discoveredConfigs, fileWatchers, mdEvents, watchers>>
    /\ UNCHANGED <<coreVars, mdFile, proc, sideVars>>

\* removeConfig after `await watcher.close()`: the entry of the file watcher
\* is deleted and onConfigRemoved is called
WatcherClosed(p) ==
    /\ p \in discovery
    /\ p.pc = "close"
    /\ fileWatchers' = "none"
    /\ NotifyRemoved(p, discovery \ {p})
    /\ UNCHANGED <<coreVars, mdFile, discoveredConfigs, mdEvents, proc,
                   sideVars>>

\* removeWatcher after `await folderWatcher.watcher.close()`: the entry of
\* the folder watcher is deleted
Detached(p) ==
    /\ p \in discovery
    /\ p.pc = "detach"
    /\ watchers' = "none"
    /\ discovery' = discovery \ {p}
    /\ tally' = Finished(p, tally)
    /\ UNCHANGED <<coreVars, mdFile, discoveredConfigs, fileWatchers, mdEvents,
                   proc, sideVars>>

\* the 'unlink' handler of the file watcher (1271-1276)
OnUnlink ==
    /\ "unlink" \in mdEvents
    /\ LET p == [id |-> MaxPolls + tally.edits, kind |-> "unlink",
                 pc |-> "close", found |-> FALSE, at |-> 0]
       IN  IF discoveredConfigs # "none"
           THEN /\ RemoveConfig(p, discovery)
           ELSE /\ mdEvents' = mdEvents \ {"unlink"}
                /\ UNCHANGED <<discoveredConfigs, fileWatchers, discovery,
                               watchers, tally>>
    /\ UNCHANGED <<coreVars, mdFile, proc, sideVars>>

\* the 'change' handler of the file watcher (1257-1269) up to its await
OnChange ==
    /\ "change" \in mdEvents
    /\ mdEvents' = mdEvents \ {"change"}
    /\ discovery' = discovery \cup
           {[id |-> MaxPolls + tally.edits, kind |-> "change",
             pc |-> "parse", found |-> FALSE, at |-> 0]}
    /\ UNCHANGED <<coreVars, mdFile, discoveredConfigs, fileWatchers, watchers,
                   tally, proc, sideVars>>

\* the 'change' handler after parseConfig: the config is stored and
\* onConfigChanged is called; a parse error is only logged
ChangeParsed(p) ==
    /\ p \in discovery
    /\ p.kind = "change"
    /\ p.pc = "parse"
    /\ LET prompt == ParseConfig(mdFile) IN
       IF prompt # "none"
       THEN /\ discoveredConfigs' = prompt
            /\ watchers' = OnConfigChanged(watchers, prompt)
            /\ tally' = Callback(tally)
       ELSE /\ tally' = [tally EXCEPT !.rejected = mdFile # NoFile \/ @]
            /\ UNCHANGED <<discoveredConfigs, watchers>>
    /\ discovery' = discovery \ {p}
    /\ UNCHANGED <<coreVars, mdFile, fileWatchers, mdEvents, proc, sideVars>>

\* start() has not run discoverAll yet and the root is empty; or
\* smartfolder.md was there with the prompt p1 when discovery started, and
\* the initial discoverAll has added it
DiscoveryInit ==
    /\ now = StartTime
    /\ aiConfigured = TRUE
    /\ dryRunFlag = FALSE
    /\ fsys = EmptyMap
    /\ events = {}
    /\ nextEv = 1
    /\ jobs = <<>>
    /\ queues = EmptyMap
    /\ ignoredFiles = EmptyMap
    /\ ignoredFileTimeouts = EmptyMap
    /\ timers = {}
    /\ history = [f \in Folders |-> <<>>]
    /\ delivered = EmptyMap
    /\ lastCall = NoCall
    /\ lastMut = EmptyMap
    /\ ProcInit
    /\ MetaInit
    /\ AuxInit
    /\ discovery = {}
    /\ mdEvents = {}
    /\ \/ DiscInit
       \/ /\ mdFile \in {file \in MdFiles : file.name = "p1"}
          /\ discoveredConfigs = ParseConfig(mdFile)
          /\ fileWatchers = WatchConfigFile("none")
          /\ watchers = OnConfigAdded("none", discoveredConfigs)
          /\ tally = [added |-> 1, removed |-> 0, polls |-> 1, edits |-> 0,
                      polledAt |-> 0, everValid |-> TRUE, rejected |-> FALSE,
                      deleted |-> FALSE, refused |-> FALSE,
                isRunning |-> TRUE, stopped |-> FALSE, late |-> FALSE,
                orphan |-> FALSE]

DiscoveryNext ==
    \/ \E file \in MdFiles : \E asChange \in BOOLEAN : MdCreate(file, asChange)
    \/ \E file \in MdFiles : MdModify(file)
    \/ MdDelete
    \/ PollTick
    \/ \E p \in discovery : Observe(p)
    \/ \E p \in discovery : DiffAdd(p)
    \/ \E p \in discovery : AddParsed(p)
    \/ \E p \in discovery : DiffRemove(p)
    \/ \E p \in discovery : WatcherClosed(p)
    \/ \E p \in discovery : Detached(p)
    \/ OnUnlink
    \/ OnChange
    \/ \E p \in discovery : ChangeParsed(p)

DiscoverySpec == DiscoveryInit /\ [][DiscoveryNext]_vars

\* ------------------------------------------------------- stopping discovery
\* stop() (1036-1058) up to its await: isRunning is cleared, the interval is
\* cleared, close() is called on every file watcher in the map
Stop ==
    /\ tally.isRunning
    /\ tally' = [tally EXCEPT !.isRunning = FALSE]
    /\ fileWatchers' = IF fileWatchers = "none" THEN "none" ELSE "closing"
    /\ mdEvents' = IF fileWatchers # "none" THEN {} ELSE mdEvents
    /\ discovery' = discovery \cup
           {[id |-> 0, kind |-> "stop", pc |-> "stop", found |-> FALSE,
             at |-> 0]}
    /\ UNCHANGED <<coreVars, mdFile, discoveredConfigs, watchers, proc,
                   sideVars>>

\* stop() after `await Promise.all(closePromises)`: the map is cleared and
\* stop() resolves.  A watcher that addConfig put into the map during the
\* await is dropped from the map without being closed.
StopResolved(p) ==
    /\ p \in discovery
    /\ p.pc = "stop"
    /\ fileWatchers' = "none"
    /\ tally' = [tally EXCEPT !.stopped = TRUE,
                              !.orphan = fileWatchers = "watching"]
    /\ discovery' = discovery \ {p}
    /\ UNCHANGED <<coreVars, mdFile, discoveredConfigs, mdEvents, watchers,
                   proc, sideVars>>

StopNext ==
    \/ DiscoveryNext
    \/ Stop
    \/ \E p \in discovery : StopResolved(p)

StopSpec == DiscoveryInit /\ [][StopNext]_vars

\* ------------------------------------------------- dynamic watcher manager
\* DynamicWatcherManager on one folder path, under arbitrary addWatcher and
\* removeWatcher calls; a call runs from one await to the next.
MaxManagerCalls == 5

\* addWatcher (121-143) up to its await: with an entry in the map it warns
\* and returns, resolved; otherwise a watcher is created and stored, and the
\* call awaits its ready promise
AddWatcherCall ==
    /\ manager.calls < MaxManagerCalls
    /\ IF manager.entry # 0
       THEN manager' = [manager EXCEPT !.calls = @ + 1, !.added = TRUE]
       ELSE manager' = [manager EXCEPT
                !.calls = @ + 1,
                !.created = @ + 1,
                !.entry = manager.created + 1,
                !.open = @ \cup {manager.created + 1},
                !.ops = @ \cup {[id |-> manager.calls + 1, kind |-> "add",
                                 w |-> manager.created + 1, fresh |-> TRUE]}]
    /\ UNCHANGED <<coreVars, discVars, proc, metaVars, sample, startup>>

\* addWatcher after `await folderWatcher.ready`: it resolves
AddWatcherReady(op) ==
    /\ op \in manager.ops
    /\ op.kind = "add"
    /\ manager' = [manager EXCEPT !.ops = @ \ {op},
                                  !.added = @ \/ op.fresh]
    /\ UNCHANGED <<coreVars, discVars, proc, metaVars, sample, startup>>

\* removeWatcher (149-167) up to its await: without an entry it warns and
\* returns; otherwise close() is called on the watcher of the entry, which
\* stays in the map during the await
RemoveWatcherCall ==
    /\ manager.calls < MaxManagerCalls
    /\ LET stale == {[op EXCEPT !.fresh = FALSE] : op \in manager.ops}
       IN  IF manager.entry = 0
           THEN manager' = [manager EXCEPT !.calls = @ + 1, !.added = FALSE,
                                           !.ops = stale]
           ELSE manager' = [manager EXCEPT
                    !.calls = @ + 1,
                    !.added = FALSE,
                    !.open = @ \ {manager.entry},
                    !.ops = stale \cup {[id |-> manager.calls + 1,
                                         kind |-> "remove",
                                         w |-> manager.entry,
                                         fresh |-> FALSE]}]
    /\ UNCHANGED <<coreVars, discVars, proc, metaVars, sample, startup>>

\* removeWatcher after `await folderWatcher.watcher.close()`: the entry of the
\* path is deleted, whichever watcher it holds by now
RemoveWatcherClosed(op) ==
    /\ op \in manager.ops
    /\ op.kind = "remove"
    /\ manager' = [manager EXCEPT !.ops = @ \ {op}, !.entry = 0]
    /\ UNCHANGED <<coreVars, discVars, proc, metaVars, sample, startup>>

ManagerNext ==
    \/ AddWatcherCall
    \/ \E op \in manager.ops : AddWatcherReady(op)
    \/ RemoveWatcherCall
    \/ \E op \in manager.ops : RemoveWatcherClosed(op)

ManagerSpec == MetaStartInit /\ [][ManagerNext]_vars

\* ------------------------------------------------------------ prompt body
\* What a job's prompt holds of the file: the content the provider of the
\* file's category extracts, and the preview buildUserPrompt puts into the
\* user prompt.  A file is its kind, its size in bytes and its number of
\* lines; a line is known by its number.
HEAD_LINES == 50

TAIL_LINES == 50

TEXT_FILE_TRUNCATE_THRESHOLD == 10 * 1024

DEFAULT_THRESHOLDS ==
    [text |-> [fullContentMax |-> 10 * 1024, metadataOnlyAbove |-> 100 * 1024],
     image |-> [fullContentMax |-> 5 * 1024 * 1024],
     pdf |-> [fullContentMax |-> 10 * 1024 * 1024],
     video |-> [fullContentMax |-> 20 * 1024 * 1024],
     audio |-> [fullContentMax |-> 10 * 1024 * 1024]]

\* classifyFile and detectMimeType/isBinaryFile on one extension of each
\* category; a folder has no extension
FileKinds ==
    {[ext |-> ".txt", category |-> "text_document", binary |-> FALSE],
     [ext |-> ".ts", category |-> "code_file", binary |-> FALSE],
     [ext |-> ".csv", category |-> "structured_data", binary |-> FALSE],
     [ext |-> ".png", category |-> "image", binary |-> TRUE],
     [ext |-> ".pdf", category |-> "pdf", binary |-> TRUE],
     [ext |-> ".mp4", category |-> "video", binary |-> TRUE],
     [ext |-> ".mp3", category |-> "audio", binary |-> TRUE],
     [ext |-> ".zip", category |-> "archive", binary |-> TRUE],
     [ext |-> ".docx", category |-> "office_doc", binary |-> TRUE],
     [ext |-> "", category |-> "folder", binary |-> FALSE]}

\* sizes on both sides of every text threshold, and one of a media file
FileSizes == {1024, 10 * 1024, 10 * 1024 + 1, 100 * 1024, 100 * 1024 + 1,
              6 * 1024 * 1024}

\* line counts on both sides of HEAD_LINES + TAIL_LINES
LineCounts == {1, 60, 100, 101, 102, 300}

\* Array.prototype.slice on the lines 1..n: the line numbers from index
\* start (counted from the end when negative) up to index end, exclusive
Slice(n, start, end) ==
    LET from == IF start < 0 THEN Max(n + start, 0)
                ELSE IF start > n THEN n ELSE start
        to == IF end > n THEN n ELSE end
    IN  IF to > from THEN [i \in 1..(to - from) |-> from + i] ELSE <<>>

NoContent == [type |-> "none", header |-> <<>>, head |-> <<>>, omitted |-> 0,
              tail |-> <<>>]

\* ContentProviderFactory.createProvider (29-103)
CreateProvider(category) ==
    CASE category \in {"text_document", "code_file", "structured_data"} -> "text"
      [] category \in {"image", "pdf", "video", "audio", "archive", "folder"}
             -> category
      [] category = "office_doc" -> "text"
      [] OTHER -> "text"

\* shouldSendContent with archives sent by size like text
ShouldSendContent_BySize(provider, size, capable) ==
    size <= DEFAULT_THRESHOLDS.text.metadataOnlyAbove

\* shouldSendContent of each provider
ShouldSendContent(provider, size, capable) ==
    CASE provider = "text" -> size <= DEFAULT_THRESHOLDS.text.metadataOnlyAbove
      [] provider \in {"archive", "folder"} -> FALSE
      [] OTHER -> capable /\ size <= DEFAULT_THRESHOLDS[provider].fullContentMax

\* TextContentProvider.extractContent (42-93)
ExtractContent(type, n, csv) ==
    IF type = "full"
    THEN [NoContent EXCEPT !.type = "full", !.head = Slice(n, 0, n)]
    ELSE [type |-> "partial",
          header |-> IF csv /\ n > 0 THEN <<1>> ELSE <<>>,
          head |-> Slice(n, 0, 50),
          omitted |-> Max(0, n - 100),
          tail |-> Slice(n, 0 - 50, n)]

\* ContentProvider.provideContent (21-49) for the provider of the category;
\* the media providers send the whole file or nothing
ProvideContent(file) ==
    LET provider == CreateProvider(file.kind.category) IN
    IF ~ShouldSendContent(provider, file.size, file.capable) THEN NoContent
    ELSE IF provider = "text"
              /\ file.size > DEFAULT_THRESHOLDS.text.fullContentMax
    THEN ExtractContent("partial", file.lines, file.kind.ext = ".csv")
    ELSE ExtractContent("full", file.lines, FALSE)

\* buildUserPrompt (482-643): the preview of a text file in the user prompt
BuildUserPrompt(file) ==
    LET n == file.lines
        isCsv == file.kind.ext = ".csv"
        isTextFile == ~file.kind.binary
        isLargeTextFile ==
            isTextFile /\ file.size > TEXT_FILE_TRUNCATE_THRESHOLD
        headStart == IF isCsv /\ n > 0 THEN 1 ELSE 0
    IN  IF isLargeTextFile
        THEN IF n > HEAD_LINES + TAIL_LINES
             THEN [type |-> "partial",
                   header |-> IF headStart = 1 THEN <<1>> ELSE <<>>,
                   head |-> Slice(n, headStart, HEAD_LINES + headStart),
                   omitted |-> n - HEAD_LINES - TAIL_LINES - headStart,
                   tail |-> Slice(n, 0 - TAIL_LINES, n)]
             ELSE [NoContent EXCEPT !.type = "full", !.head = Slice(n, 0, n)]
        ELSE IF isTextFile /\ file.size <= TEXT_FILE_TRUNCATE_THRESHOLD
        THEN [NoContent EXCEPT !.type = "full", !.head = Slice(n, 0, n)]
        ELSE NoContent

\* runJob builds the prompt of a file
BuildPrompt ==
    /\ sample.pc = "file"
    /\ sample' = [sample EXCEPT !.pc = "built",
                                !.content = ProvideContent(sample),
                                !.preview = BuildUserPrompt(sample)]
    /\ UNCHANGED <<coreVars, discVars, proc, metaVars, manager, startup>>

\* a file of any kind, size and length has been added
PromptInit ==
    /\ now = StartTime
    /\ aiConfigured = TRUE
    /\ dryRunFlag = FALSE
    /\ fsys = EmptyMap
    /\ events = {}
    /\ nextEv = 1
    /\ jobs = <<>>
    /\ queues = EmptyMap
    /\ ignoredFiles = EmptyMap
    /\ ignoredFileTimeouts = EmptyMap
    /\ timers = {}
    /\ history = [f \in Folders |-> <<>>]
    /\ delivered = EmptyMap
    /\ lastCall = NoCall
    /\ lastMut = EmptyMap
    /\ DiscInit
    /\ ProcInit
    /\ MetaInit
    /\ manager = NoManager
    /\ startup = NoStartup
    /\ sample \in [pc : {"file"}, kind : FileKinds, size : FileSizes,
                   lines : LineCounts, capable : BOOLEAN,
                   content : {NoContent}, preview : {NoContent}]

PromptNext == BuildPrompt

PromptSpec == PromptInit /\ [][PromptNext]_vars

\* -------------------------------------------------------- state directories
\* startRunSession: the state directory of every configured folder is
\* prepared, then the watchers start and jobs append to history.jsonl.
MaxAppends == 2

\* process.env.SMARTFOLDER_HOME (<<>>: not set) and os.homedir(): the state
\* home on its own volume, under a watched folder, or left at its default
\* with the home directory not watched or watched itself
Envs ==
    [SMARTFOLDER_HOME : {<<>>, <<"/", "srv", "sf">>, FolderB \o <<"sf">>},
     homedir : {<<"/", "home", "u">>, FolderA}]

\* getSmartFolderHome (55-59)
GetSmartFolderHome(env) ==
    IF env.SMARTFOLDER_HOME # <<>>
    THEN PathResolve(env.homedir, env.SMARTFOLDER_HOME)
    ELSE env.homedir \o <<".smartfolder">>

\* hashFolderPath (68-74): the first 16 hex characters of the SHA-256 of the
\* normalized path, one name per path
HashFolderPath(folderPath) ==
    LET normalizedPath == PathResolve(<<"/">>, folderPath) IN
    IF normalizedPath = FolderA THEN "sha-w-a"
    ELSE IF normalizedPath = FolderB THEN "sha-w-b"
    ELSE "sha-other"

\* getStateDirForFolder (82-86)
GetStateDirForFolder(env, folderPath) ==
    GetSmartFolderHome(env) \o <<"state", HashFolderPath(folderPath)>>

\* ensureStateDirectories without the warning
EnsureStateDirectories_Silent(made) ==
    /\ startup.pc = "ensure"
    /\ startup' = [startup EXCEPT !.pc = "watch", !.dirs = made]
    /\ UNCHANGED <<coreVars, discVars, proc, metaVars, manager, sample>>

\* ensureStateDirectories (386-402): fs.mkdir of every folder's state
\* directory succeeds for the folders in made; a failure is caught and
\* logged as a warning
EnsureStateDirectories(made) ==
    /\ startup.pc = "ensure"
    /\ startup' = [startup EXCEPT !.pc = "watch",
                                  !.dirs = made,
                                  !.warned = Folders \ made]
    /\ UNCHANGED <<coreVars, discVars, proc, metaVars, manager, sample>>

\* startFolderWatchers and `await watchSession.ready` (313-319)
StartFolderWatchers ==
    /\ startup.pc = "watch"
    /\ startup' = [startup EXCEPT !.pc = "running", !.watching = Folders]
    /\ UNCHANGED <<coreVars, discVars, proc, metaVars, manager, sample>>

\* a job of a watched folder appends its record (appendHistory 392-404):
\* fs.appendFile creates history.jsonl in a directory that exists and fails
\* without one; a watcher sees the new file when it lies directly in its
\* folder (depth 0)
JobAppends(folder, ok) ==
    /\ folder \in startup.watching
    /\ startup.appended + startup.failed < MaxAppends
    /\ ok => folder \in startup.dirs
    /\ startup' = [startup EXCEPT
           !.appended = IF ok THEN @ + 1 ELSE @,
           !.failed = IF ok THEN @ ELSE @ + 1,
           !.missing = @ \cup ({folder} \ startup.dirs),
           !.observed = @ \/ (ok /\ GetStateDirForFolder(startup.env, folder)
                                        \in startup.watching)]
    /\ UNCHANGED <<coreVars, discVars, proc, metaVars, manager, sample>>

\* the configuration is resolved for one environment; nothing is prepared
StartupInit ==
    /\ now = StartTime
    /\ aiConfigured = TRUE
    /\ dryRunFlag = FALSE
    /\ fsys = EmptyMap
    /\ events = {}
    /\ nextEv = 1
    /\ jobs = <<>>
    /\ queues = EmptyMap
    /\ ignoredFiles = EmptyMap
    /\ ignoredFileTimeouts = EmptyMap
    /\ timers = {}
    /\ history = [f \in Folders |-> <<>>]
    /\ delivered = EmptyMap
    /\ lastCall = NoCall
    /\ lastMut = EmptyMap
    /\ DiscInit
    /\ ProcInit
    /\ MetaInit
    /\ manager = NoManager
    /\ sample = NoSample
    /\ startup \in {[NoStartup EXCEPT !.pc = "ensure", !.env = env] :
                        env \in Envs}

StartupNext ==
    \/ \E made \in SUBSET Folders : EnsureStateDirectories(made)
    \/ StartFolderWatchers
    \/ \E folder \in Folders : \E ok \in BOOLEAN : JobAppends(folder, ok)

StartupSpec == StartupInit /\ [][StartupNext]_vars

\* ------------------------------------------------------------- job queue
JobIds == 1..Len(jobs)

Running(j) == jobs[j].pc = "workflow"

SameFolder(i, j) == jobs[i].folder = jobs[j].folder



\* C1: in each folder at most one job is executing at any time; the other
\* jobs accepted for the folder are still waiting or have already finished.
C1_SingleFlight ==
    \A i \in JobIds : \A j \in JobIds :
        (i # j /\ SameFolder(i, j) /\ Running(i)) =>
            jobs[j].pc \in {"pending", "settled"}

\* a job is executing while a later job of the same folder waits
C1_Witness ==
    \E i \in JobIds : \E j \in JobIds :
        /\ i < j
        /\ SameFolder(i, j)
        /\ Running(i)
        /\ jobs[j].pc = "pending"

\* C2: the jobs of one folder run in the order their events arrived: a job
\* has left the waiting state only if every earlier job of the folder has
\* completed.
C2_ArrivalOrder ==
    \A i \in JobIds : \A j \in JobIds :
        (i < j /\ SameFolder(i, j) /\ jobs[j].pc # "pending") =>
            jobs[i].pc = "settled"

\* the second job of a folder is executing after the first one completed
C2_Witness ==
    \E i \in JobIds : \E j \in JobIds :
        /\ i < j
        /\ SameFolder(i, j)
        /\ jobs[i].pc = "settled"
        /\ Running(j)

\* the events handed to enqueueFile while their path was not ignored
Accepted == {e \in DOMAIN delivered : ~delivered[e].ignored}

JobsOf(e) == {j \in JobIds : jobs[j].ev = e}

\* the history records written for an event, over every folder's history
RecordsOf(e) ==
    {fi \in UNION {{<<f, i>> : i \in DOMAIN history[f]} : f \in Folders} :
        history[fi[1]][fi[2]].ev = e}

\* C3 as stated: every accepted add event yields exactly one job, and that
\* job, once complete, has appended exactly one history record.
C3_Original ==
    \A e \in Accepted :
        /\ Cardinality(JobsOf(e)) = 1
        /\ \A j \in JobsOf(e) :
               jobs[j].pc = "settled" => Cardinality(RecordsOf(e)) = 1

\* C3: every accepted add event yields exactly one job, and that job appends
\* at most one history record, in its own folder: exactly one, of the kind
\* the workflow ended with, when the workflow ran, returned or threw an Error
\* and the append succeeded; none when the job was skipped, the thrown value
\* had no message to read, or the append failed.
C3_OneJobAtMostOneRecord ==
    \A e \in Accepted :
        /\ Cardinality(JobsOf(e)) = 1
        /\ \A j \in JobsOf(e) :
               /\ Cardinality(RecordsOf(e)) <= 1
               /\ \A fi \in RecordsOf(e) :
                      /\ fi[1] = jobs[j].folder
                      /\ history[fi[1]][fi[2]].kind = jobs[j].record
               /\ jobs[j].pc = "settled" =>
                      (Cardinality(RecordsOf(e)) = 1 <=>
                          /\ jobs[j].record \in {"result", "error"}
                          /\ jobs[j].append = "ok")
               /\ jobs[j].pc # "settled" => RecordsOf(e) = {}

\* one job completed with its error record, another completed with none
C3_Witness ==
    \E i \in JobIds : \E j \in JobIds :
        /\ jobs[i].pc = "settled"
        /\ jobs[i].record = "error"
        /\ Cardinality(RecordsOf(jobs[i].ev)) = 1
        /\ jobs[j].pc = "settled"
        /\ RecordsOf(jobs[j].ev) = {}

\* the latest earlier job of the same folder (0: none)
Pred(j) ==
    LET earlier == {i \in JobIds : i < j /\ SameFolder(i, j)} IN
    IF earlier = {} THEN 0
    ELSE CHOOSE i \in earlier : \A k \in earlier : k <= i

Failed(j) ==
    /\ jobs[j].pc = "settled"
    /\ jobs[j].record = "error" \/ jobs[j].outcome = "rejected"

\* C4: a failed job does not break the folder's chain: the job waiting behind
\* a job that completed with an error can start.
C4_FailureKeepsChain ==
    \A j \in JobIds :
        (jobs[j].pc = "pending" /\ Pred(j) # 0 /\ Failed(Pred(j))) =>
            ENABLED StartJob(j)

\* a job ran to completion behind a job whose workflow threw
C4_Witness ==
    \E j \in JobIds :
        /\ Pred(j) # 0
        /\ jobs[Pred(j)].outcome = "rejected"
        /\ jobs[j].pc = "settled"

\* C5: folders are independent: a waiting job whose earlier same-folder jobs
\* have all completed can start, whatever the jobs of other folders do.
C5_FoldersIndependent ==
    \A j \in JobIds :
        (jobs[j].pc = "pending" /\ (Pred(j) # 0 => jobs[Pred(j)].pc = "settled")) =>
            ENABLED StartJob(j)

\* a job runs in one folder while an earlier job of another folder still runs
C5_Witness ==
    \E i \in JobIds : \E j \in JobIds :
        /\ i < j
        /\ ~SameFolder(i, j)
        /\ Running(i)
        /\ Running(j)

\* C6 as stated: no add event caused by a tool's own mutation starts a job.
C6_SelfEventsSuppressed ==
    \A e \in DOMAIN delivered :
        delivered[e].cause = "tool" => JobsOf(e) = {}

\* C7: an event whose path is ignored when it is enqueued is dropped: no job
\* is created for it and no history record is ever written for it.
C7_IgnoredDropped ==
    \A e \in DOMAIN delivered :
        delivered[e].ignored => (JobsOf(e) = {} /\ RecordsOf(e) = {})

\* an event was dropped because its path was ignored
C7_Witness ==
    \E e \in DOMAIN delivered :
        /\ delivered[e].ignored
        /\ JobsOf(e) = {}

\* ------------------------------------------------- self-change suppressor
\* the probe enqueueFile would make now
Ignored(p) == IsFileIgnored(ignoredFiles, now, p)

\* time since a tool last changed p
SinceMutation(p) == now - lastMut[p].at

\* C8 as stated: every path a tool has changed is ignored during the 10 s
\* after the change and no longer ignored 20 s after it.
C8_Original ==
    \A p \in DOMAIN lastMut :
        /\ SinceMutation(p) < IGNORE_DURATION_MS => Ignored(p)
        /\ SinceMutation(p) >= 2 * IGNORE_DURATION_MS => ~Ignored(p)

\* the tools that report their change through onFileModified
NotifyingTools == {"write_file", "rename_file", "move_file", "sed"}

\* C8: a path last changed by a successful write_file, rename_file, move_file
\* or content-changing sed is ignored while less than 10 s have passed since
\* the change and is not ignored once more than 10 s have passed, hence not
\* at 20 s.
C8_MarkedWindow ==
    \A p \in DOMAIN lastMut :
        lastMut[p].by \in NotifyingTools =>
            /\ lastMut[p].markAt = lastMut[p].at
            /\ SinceMutation(p) < IGNORE_DURATION_MS => Ignored(p)
            /\ SinceMutation(p) > IGNORE_DURATION_MS => ~Ignored(p)

\* a path 20 s after a notifying tool changed it, no longer ignored
C8_Witness ==
    \E p \in DOMAIN lastMut :
        /\ lastMut[p].by \in NotifyingTools
        /\ SinceMutation(p) >= 2 * IGNORE_DURATION_MS
        /\ ~Ignored(p)

\* the paths ignoreFile was ever called with
Marked == {p \in DOMAIN lastMut : lastMut[p].markAt # 0}

\* time since the most recent ignoreFile(p)
SinceMark(p) == now - lastMut[p].markAt

\* C9 as stated: a path is ignored exactly when less than 10 s have passed
\* since its most recent mark.
C9_Original ==
    \A p \in DOMAIN lastMut \cup DOMAIN ignoredFiles :
        Ignored(p) <=> (p \in Marked /\ SinceMark(p) < IGNORE_DURATION_MS)

\* C9: only marked paths are ignored; a marked path is ignored whenever less
\* than 10 s have passed since its most recent mark and never when more than
\* 10 s have passed; at exactly 10 s it is ignored as long as its entry has
\* not been removed. A later mark replaces the earlier timestamp and timer:
\* the entry holds the time of the latest mark and every pending timer of
\* the path is the one scheduled by that mark.
C9_IgnoreWindow ==
    /\ DOMAIN ignoredFiles \subseteq Marked
    /\ \A p \in DOMAIN lastMut :
           /\ Ignored(p) => (p \in Marked /\ SinceMark(p) <= IGNORE_DURATION_MS)
           /\ (p \in Marked /\ SinceMark(p) < IGNORE_DURATION_MS) => Ignored(p)
           /\ (p \in Marked /\ SinceMark(p) = IGNORE_DURATION_MS) =>
                  (Ignored(p) <=> p \in DOMAIN ignoredFiles)
           /\ p \in DOMAIN ignoredFiles => ignoredFiles[p] = lastMut[p].markAt
           /\ \A tm \in timers :
                  tm.path = p => tm.due = lastMut[p].markAt + IGNORE_DURATION_MS

\* a path marked twice, 10 s after its second mark and still ignored
C9_Witness ==
    \E p \in Marked :
        /\ lastMut[p].marks >= 2
        /\ SinceMark(p) = IGNORE_DURATION_MS
        /\ Ignored(p)

\* ------------------------------------------------------------ file tools
\* C10 as stated: every path a tool reads or writes lies within the root of
\* the folder the tool was invoked for.
C10_Contained ==
    \A p \in lastCall.touched : Within(lastCall.folder, p)

\* ---------------------------------------------------------------- C11
\* a tool invocation has been made
Called == lastCall.tool # "none"

\* some path argument of the invocation resolves outside the folder
Escaping(call) ==
    \E a \in PathArguments(call.tool, call.args) :
        AssertPathArgument(a) /\ ~ResolveWithinFolder(call.folder, a).ok

\* C11: every one of the nine tools, invoked with a path argument that
\* resolves outside the folder, returns a failed result (ok: false), with dry
\* run set or not.
C11_EscapeRefused == Called /\ Escaping(lastCall) => ~lastCall.ok

\* ---------------------------------------------------------------- C12
WritingTools == {"write_file", "rename_file", "move_file", "sed", "create_folder"}

\* an invocation under dry run of one of the five writing tools
DryRunWrite == Called /\ lastCall.dryRun /\ lastCall.tool \in WritingTools

\* C12 as stated: under dry run every invocation of a writing tool changes
\* nothing on disk and returns the skipped result.
C12_Original == DryRunWrite => fsys = lastCall.before /\ lastCall.skipped

\* the checks a writing tool makes on its arguments before it looks at the
\* dry-run flag: the argument assertions, the binary-extension test of
\* write_file and sed, the extension rule of rename_file
RejectedBeforeDryRun(call) ==
    \/ \E a \in PathArguments(call.tool, call.args) : ~AssertPathArgument(a)
    \/ call.tool \in {"write_file", "sed"}
         /\ PathExtname(call.args.path) \in BinaryExtensions
    \/ call.tool = "rename_file"
         /\ PathExtname(call.args.from) # ""
         /\ PathExtname(call.args.to) # PathExtname(call.args.from)

\* C12 (amended): under dry run an invocation of a writing tool changes
\* nothing on disk and notifies nothing; it returns the skipped result unless
\* its arguments are rejected first, and then it fails.
C12_DryRunNoChange ==
    DryRunWrite =>
        /\ fsys = lastCall.before
        /\ lastCall.marks = <<>>
        /\ lastCall.skipped <=> ~RejectedBeforeDryRun(lastCall)
        /\ RejectedBeforeDryRun(lastCall) => ~lastCall.ok

\* a rename of an existing file onto a free name was skipped under dry run
C12_Witness ==
    /\ DryRunWrite
    /\ lastCall.tool = "rename_file"
    /\ lastCall.args = [from |-> <<"f.txt">>, to |-> <<"g.txt">>]
    /\ IsFile(lastCall.before, FolderA \o <<"f.txt">>)
    /\ ~Exists(lastCall.before, FolderA \o <<"g.txt">>)
    /\ lastCall.skipped
    /\ fsys = lastCall.before

\* ---------------------------------------------------------------- C14
\* a rename_file call that went through: ok and not skipped
Renamed == Called /\ lastCall.tool = "rename_file" /\ lastCall.ok /\ ~lastCall.skipped

\* C14 as stated: for every rename_file(from, to) call that succeeds, the
\* extension of from equals the extension of to.
C14_Original ==
    Renamed => PathExtname(lastCall.args.from) = PathExtname(lastCall.args.to)

\* C14 (amended): for every rename_file(from, to) call that returns ok, if
\* from has an extension then to has the same extension.
C14_ExtensionKept ==
    Called /\ lastCall.tool = "rename_file" /\ lastCall.ok
        => \/ PathExtname(lastCall.args.from) = ""
           \/ PathExtname(lastCall.args.to) = PathExtname(lastCall.args.from)

\* f.txt was renamed to g.txt on disk
C14_Witness ==
    /\ Renamed
    /\ lastCall.args = [from |-> <<"f.txt">>, to |-> <<"g.txt">>]
    /\ IsFile(lastCall.before, FolderA \o <<"f.txt">>)
    /\ IsFile(fsys, FolderA \o <<"g.txt">>)
    /\ ~Exists(fsys, FolderA \o <<"f.txt">>)

\* ---------------------------------------------------------------- C16
\* what is at path p: "absent", DIR or the content of the file
Snapshot(fs, p) == IF p \in DOMAIN fs THEN fs[p] ELSE "absent"

\* the invocation left something else at p than it found
ChangedAt(p) == Snapshot(lastCall.before, p) # Snapshot(fsys, p)

\* the paths the arguments of the invocation name
ArgumentPaths(call) ==
    {PathResolve(call.folder, a) : a \in PathArguments(call.tool, call.args)}

\* C16: a call of write_file, rename_file, move_file or sed has notified a
\* self-change for a path it names exactly if it changed what is at that
\* path: write_file the created path, rename_file and move_file source and
\* destination, sed the file if and only if its content changed; nothing
\* else is notified.
C16_SelfChangeNotified ==
    Called /\ lastCall.tool \in {"write_file", "rename_file", "move_file", "sed"}
        => /\ \A p \in ArgumentPaths(lastCall) :
                  ChangedAt(p) <=> p \in SeqRange(lastCall.marks)
           /\ SeqRange(lastCall.marks) \subseteq ArgumentPaths(lastCall)

\* sed rewrote f.txt from c1 to c2 and notified the self-change
C16_Witness ==
    /\ Called
    /\ lastCall.tool = "sed"
    /\ lastCall.args.path = <<"f.txt">>
    /\ Snapshot(lastCall.before, FolderA \o <<"f.txt">>) = "c1"
    /\ Snapshot(fsys, FolderA \o <<"f.txt">>) = "c2"
    /\ lastCall.marks = <<FolderA \o <<"f.txt">> >>

\* ---------------------------------------------------------------- C19
\* C19: for every tool and every argument value a failing tool call yields
\* an error payload: the invocation returns a failed result, it does not
\* throw out of the tool and the execute callback.
C19_FailureIsPayload == Called /\ ~lastCall.ok => ~lastCall.threw

\* ---------------------------------------------------------------- C17
\* C17: in every job the number of model steps (round trips to the model)
\* never exceeds max_tool_calls.
C17_StepCap == \A j \in JobIds : jobs[j].steps <= MaxToolCalls

\* a job whose tool call changed a file has used up its steps and is still
\* inside runWorkflow
C17_Witness ==
    \E j \in JobIds :
        /\ Running(j)
        /\ jobs[j].steps = MaxToolCalls
        /\ \E p \in DOMAIN lastMut : PathDirname(p) = jobs[j].folder

\* ---------------------------------------------------------------- C13
\* the call was carried out: it returned ok and was not skipped
CarriedOut == Called /\ lastCall.ok /\ ~lastCall.skipped

\* C13: write_file is never carried out when its target exists at the moment
\* of the write, and never changes the content of an existing file, also
\* when jobs or tool calls run concurrently.
C13_NeverOverwrites ==
    Called /\ lastCall.tool = "write_file" =>
        LET p == PathResolve(lastCall.folder, lastCall.args.path) IN
        Exists(lastCall.before, p) =>
            /\ ~CarriedOut
            /\ Snapshot(fsys, p) = Snapshot(lastCall.before, p)

\* ---------------------------------------------------------------- C15
\* C15: a rename_file call that finds its destination present or its source
\* absent is not carried out and leaves both paths as they were; a rename
\* that is carried out never replaces an existing destination.
C15_RenameGuarded ==
    Called /\ lastCall.tool = "rename_file" =>
        LET from == PathResolve(lastCall.folder, lastCall.args.from)
            to == PathResolve(lastCall.folder, lastCall.args.to)
        IN  Exists(lastCall.before, to) \/ ~Exists(lastCall.before, from) =>
                /\ ~CarriedOut
                /\ Snapshot(fsys, from) = Snapshot(lastCall.before, from)
                /\ Snapshot(fsys, to) = Snapshot(lastCall.before, to)

\* ---------------------------------------------------------------- C18
\* C18: the tool calls of one model step are executed one at a time in the
\* order the model gave them (a call has started only if every earlier call
\* of the step has returned), and their results are recorded in that order.
C18_SequentialInOrder ==
    \A j \in JobIds :
        LET cs == jobs[j].calls
            tr == jobs[j].toolResults
        IN  /\ \A i \in DOMAIN cs : \A k \in DOMAIN cs :
                   i < k /\ cs[k].phase # "todo" => cs[i].phase = "done"
            /\ \A a \in DOMAIN tr : \A b \in DOMAIN tr :
                   a < b /\ tr[a].step = tr[b].step => tr[a].call < tr[b].call

\* ---------------------------------------------------------------- C20
\* the job has completed
Settled(j) == jobs[j].pc = "settled"

\* the error records written for the event of job j
ErrorRecordsOf(j) ==
    {fi \in RecordsOf(jobs[j].ev) : history[fi[1]][fi[2]].kind = "error"}

\* a workflow-wide failure happened in job j: runWorkflow rejected (with an
\* Error or with a value that has no message), or the file could not be
\* read when the job classified it and built the prompt
WorkflowWideFailure(j) ==
    \/ jobs[j].record = "error"
    \/ jobs[j].outcome = "rejected"
    \/ jobs[j].pc # "pending" /\ ~jobs[j].statOk

\* C20 as stated: a job in which a workflow-wide failure happened (provider
\* failure, failure classifying the file or building the prompt) has, once
\* complete, appended exactly one history record, an error record.
C20_Original ==
    \A j \in JobIds :
        Settled(j) /\ WorkflowWideFailure(j) =>
            /\ Cardinality(RecordsOf(jobs[j].ev)) = 1
            /\ Cardinality(ErrorRecordsOf(j)) = 1

\* C20 (amended): when runWorkflow rejects with an Error the job appends one
\* error record and no other record, none at all if the history write fails;
\* when it rejects with a value without a message the job leaves no record;
\* in both cases the next job of the folder can start.
C20_FailureCaught ==
    \A j \in JobIds :
        Settled(j) =>
            /\ jobs[j].record = "error" =>
                   /\ RecordsOf(jobs[j].ev) = ErrorRecordsOf(j)
                   /\ Cardinality(ErrorRecordsOf(j)) =
                          IF jobs[j].append = "ok" THEN 1 ELSE 0
                   /\ \A fi \in ErrorRecordsOf(j) : fi[1] = jobs[j].folder
            /\ jobs[j].outcome = "rejected" => RecordsOf(jobs[j].ev) = {}
            /\ jobs[j].record = "error" \/ jobs[j].outcome = "rejected" =>
                   \A k \in JobIds :
                       jobs[k].prev = j /\ jobs[k].pc = "pending" =>
                           ENABLED StartJob(k)

\* a job ended with its one error record and the next job of the folder has
\* entered runWorkflow
C20_Witness ==
    \E j \in JobIds : \E k \in JobIds :
        /\ Settled(j)
        /\ jobs[j].record = "error"
        /\ Cardinality(ErrorRecordsOf(j)) = 1
        /\ jobs[k].prev = j
        /\ Running(k)

\* a job whose file had vanished before it started ran its workflow and
\* ended with a result record
C20_AbsorbedReached ==
    \E j \in JobIds :
        /\ Settled(j)
        /\ ~jobs[j].statOk
        /\ jobs[j].record = "result"

\* ---------------------------------------------------------------- C21
\* the files a started tool call is about to change: its checks have passed
\* and its fs.writeFile or fs.rename has not run yet
AttemptedPaths(j, i) ==
    LET c == jobs[j].calls[i] IN
    IF c.phase # "started" \/ ~c.pass THEN {}
    ELSE IF c.tool = "write_file"
    THEN {PathResolve(jobs[j].folder, c.args.path)}
    ELSE {PathResolve(jobs[j].folder, c.args.from),
          PathResolve(jobs[j].folder, c.args.to)}

\* the tool calls in flight, over every job
CallIds == UNION {{<<j, i>> : i \in DOMAIN jobs[j].calls} : j \in JobIds}

\* C21: at any instant at most one mutation is being attempted on any given
\* file: no two tool calls in flight are about to change the same path.
C21_OneMutationPerFile ==
    \A a \in CallIds : \A b \in CallIds :
        a # b => AttemptedPaths(a[1], a[2]) \cap AttemptedPaths(b[1], b[2]) = {}

\* ---------------------------------------------------------------------------
\* C28: every tool call of a job of a folder configured with dryRun: true runs
\* in dry-run mode, whether or not --dry-run was passed.
C28_FolderDryRunWins ==
    (lastCall.tool # "none" /\ RawFolderDryRun(lastCall.folder) = {TRUE})
        => lastCall.dryRun

\* ---------------------------------------------------------------------------
\* C29: a failure to append to history.jsonl is never fatal: the job whose
\* append failed has settled fulfilled, and a job queued behind it is free to
\* start (or has started).
C29_AppendFailureNotFatal ==
    \A j \in JobIds :
        jobs[j].append = "failed" =>
            /\ jobs[j].pc = "settled"
            /\ jobs[j].outcome = "fulfilled"
            /\ \A k \in JobIds :
                   (jobs[k].prev = j /\ jobs[k].pc = "pending") => CanStart(k)

\* a job's append failed and the folder's next job ran to its end
C29_Witness ==
    \E j \in JobIds : \E k \in JobIds :
        /\ jobs[j].append = "failed"
        /\ jobs[k].prev = j
        /\ jobs[k].pc = "settled"

\* ---------------------------------------------------------------------------
\* C30: across every sequence of ensureFolderMetadata calls for a folder,
\* each call updates lastRunAt and firstWatchedAt keeps the value written by
\* the first call.
C30_Original ==
    (metaLog.calls > 0 /\ metadataFile.kind = "json") =>
        /\ metadataFile.firstWatchedAt = metaLog.first
        /\ metadataFile.lastRunAt = metaLog.at

C24_AddedOnce == mdFile # NoFile => tally.added <= 1

\* ---------------------------------------------------------------------------
\* C23: when a discovered smartfolder.md is deleted, onRemoved fires exactly
\* once for it, and its per-file watcher is detached once the removal is done.
C23_RemovedOnce ==
    tally.deleted =>
        /\ tally.removed <= 1
        /\ (tally.removed = 1 /\ mdFile = NoFile /\ discovery = {})
               => fileWatchers = "none"

Quiet ==
    /\ discovery = {}
    /\ mdEvents = {}
    /\ tally.edits > 0
    /\ tally.polledAt = tally.edits

\* C27: after a discovered smartfolder.md was modified, or replaced (deleted
\* and created again) with valid content, discovery comes to hold the config
\* of that path with the new prompt: once discovery is quiet, the config held
\* for the path is the prompt of the file.
C27_ConfigFollowsFile ==
    (Quiet /\ Acceptable(mdFile)) => discoveredConfigs = mdFile.name

\* ---------------------------------------------------------------------------
\* C25: in root mode, a smartfolder.md created under a root leads within one
\* discovery tick to a folder watcher attached on its directory with the
\* file's content as prompt, and deleting the file leads to that watcher
\* being detached: once a tick that followed the last change has completed
\* and nothing is in flight, an acceptable file that was created and never
\* modified has its watcher, and a missing file has none.
C25_WatcherFollowsFile ==
    Quiet =>
        /\ (Acceptable(mdFile) /\ discoveredConfigs = mdFile.name)
               => watchers = mdFile.name
        /\ mdFile = NoFile => watchers = "none"

\* ---------------------------------------------------------------------------
\* no path has been marked during the last 10 s
NoRecentMark == \A p \in Marked : SinceMark(p) > IGNORE_DURATION_MS

\* every entry of the ignored-path map has a cleanup timer in the table, and
\* the table holds exactly the timers that are pending
EntriesHaveTimers ==
    /\ DOMAIN ignoredFiles \subseteq DOMAIN ignoredFileTimeouts
    /\ timers = {ignoredFileTimeouts[p] : p \in DOMAIN ignoredFileTimeouts}

\* C40 as stated: whenever no path has been marked during the last 10 s, the
\* ignored-path map and the table of pending cleanup timers are both empty,
\* and every entry in the map always has a pending cleanup timer.
C40_Original ==
    /\ EntriesHaveTimers
    /\ NoRecentMark =>
           (ignoredFiles = EmptyMap /\ ignoredFileTimeouts = EmptyMap)

\* C40 (amended): every entry in the map always has a pending cleanup timer
\* and every pending timer is the one in the table; whenever no path has been
\* marked during the last 10 s every timer still pending is due, and once the
\* due timers have fired the map and the table are both empty.
C40_NoAccumulation ==
    /\ EntriesHaveTimers
    /\ NoRecentMark =>
           /\ \A tm \in timers : tm.due <= now
           /\ (timers = {} =>
                   (ignoredFiles = EmptyMap /\ ignoredFileTimeouts = EmptyMap))

\* paths were marked, 10 s have passed and the cleanup has emptied both
C40_Witness ==
    /\ Marked # {}
    /\ NoRecentMark
    /\ ignoredFiles = EmptyMap
    /\ ignoredFileTimeouts = EmptyMap

\* ---------------------------------------------------------------------------
\* job j begins executing in this step
Begins(j) == jobs[j].pc = "pending" /\ jobs'[j].pc = "workflow"

\* C35 as stated: no job begins executing for a path that is in the ignored
\* set at the moment the job begins.
C35_Original ==
    [][\A j \in JobIds : Begins(j) => ~Ignored(jobs[j].file)]_vars

\* C35 (amended): no job is created for a path that is in the ignored set at
\* the moment its event reaches the queue; the set is consulted at intake
\* only, never again when the job begins.
C35_IgnoredAtIntake ==
    [][\A j \in 1..Len(jobs') :
           j > Len(jobs) => ~Ignored(jobs'[j].file)]_vars

\* a job is executing for a path that another job's tool marked while it was
\* queued, and the mark is still in force
C35_Witness ==
    \E j \in JobIds :
        /\ Running(j)
        /\ jobs[j].calls = <<>>
        /\ Ignored(jobs[j].file)

\* ---------------------------------------------------------------------------
\* C38: while discovery is running, whenever no add or remove operation is in
\* progress the set of discovered config paths equals the set of paths with a
\* per-file watcher.
C38_ConfigsMatchWatchers ==
    (tally.isRunning /\ discovery = {}) =>
        (discoveredConfigs # "none" <=> fileWatchers # "none")

\* ---------------------------------------------------------------------------
\* C39: a smartfolder.md rejected as invalid is examined again on every later
\* discovery tick, and reported through onConfigAdded within one tick after
\* its content became valid: once a tick that followed the last change has
\* completed and nothing is in flight, a file that addConfig had rejected and
\* that is acceptable now is discovered with its prompt and was reported
\* through onConfigAdded.
C39_RejectedRetried ==
    (Quiet /\ tally.refused /\ Acceptable(mdFile)) =>
        /\ discoveredConfigs = mdFile.name
        /\ tally.added >= 1

\* ---------------------------------------------------------------------------
\* C37: after stop() has resolved, no onConfigAdded, onConfigRemoved or
\* onConfigChanged callback fires and no per-file watcher is open, even when a
\* scan was in progress when stop() was called.
C37_StopIsFinal ==
    tally.stopped =>
        /\ ~tally.late
        /\ fileWatchers # "watching"
        /\ ~tally.orphan

\* ---------------------------------------------------------------------------
\* C36: under every interleaving of addWatcher and removeWatcher calls, once
\* an addWatcher for the folder has resolved and until removeWatcher is called
\* again the folder is watched (isWatching is true and its watcher is open),
\* and at no time are two watchers open for the same path.
C36_WatchedUntilRemoved ==
    /\ manager.added =>
           (manager.entry # 0 /\ manager.entry \in manager.open)
    /\ Cardinality(manager.open) <= 1

\* ---------------------------------------------------------------------------
TextCategories == {"text_document", "code_file", "structured_data"}

\* the line numbers a body holds
LinesOf(body) ==
    {body.header[i] : i \in DOMAIN body.header}
        \cup {body.head[i] : i \in DOMAIN body.head}
        \cup {body.tail[i] : i \in DOMAIN body.tail}

FirstAndLast(n) ==
    {i \in 1..n : i <= HEAD_LINES \/ i > n - TAIL_LINES}

\* C33: the prompt body of a text file contains the file's full bytes when
\* its size is at most 10 KiB, exactly the first 50 and last 50 lines plus an
\* omission marker (and the CSV header line verbatim) when its size is
\* between 10 KiB and 100 KiB, and no file bytes when it exceeds 100 KiB.
C33_TextBodyBySize ==
    (sample.pc = "built" /\ sample.kind.category \in TextCategories) =>
        LET body == sample.preview
            n == sample.lines
        IN  /\ sample.size <= 10 * 1024 =>
                (body.type = "full" /\ LinesOf(body) = 1..n)
            /\ (sample.size > 10 * 1024 /\ sample.size <= 100 * 1024) =>
                /\ LinesOf(body) = FirstAndLast(n)
                /\ n > HEAD_LINES + TAIL_LINES =>
                       (body.type = "partial" /\ body.omitted > 0)
                /\ (sample.kind.ext = ".csv" /\ body.type = "partial") =>
                       body.header = <<1>>
            /\ sample.size > 100 * 1024 => body.type = "none"

\* ---------------------------------------------------------------------------
\* C34 as stated: for a file classified as archive, folder or office document
\* the content provider always chooses body policy none, whatever the file
\* size and model capability.
C34_Original ==
    (sample.pc = "built"
        /\ sample.kind.category \in {"archive", "folder", "office_doc"}) =>
        sample.content.type = "none"

\* C34 (amended): for a file classified as archive or folder the content
\* provider always chooses body policy none, whatever the file size and model
\* capability; an office document gets the provider of text files, which
\* chooses full up to 10 KiB, partial up to 100 KiB and none above.
C34_MetadataOnly ==
    sample.pc = "built" =>
        /\ sample.kind.category \in {"archive", "folder"} =>
               sample.content.type = "none"
        /\ sample.kind.category = "office_doc" =>
               sample.content.type =
                   IF sample.size <= 10 * 1024 THEN "full"
                   ELSE IF sample.size <= 100 * 1024 THEN "partial"
                   ELSE "none"

\* a small archive, for a model that takes every kind of file, got no body
C34_Witness ==
    /\ sample.pc = "built"
    /\ sample.kind.category = "archive"
    /\ sample.size <= 10 * 1024
    /\ sample.capable
    /\ sample.content.type = "none"

C32_StateDirOutside ==
    startup.pc = "running" =>
        /\ \A f \in Folders : \A g \in Folders :
               ~Within(g, GetStateDirForFolder(startup.env, f))
        /\ ~startup.observed

====
